---- MODULE Spec2Model ----
(***************************************************************************)
(* Model of the hybrid retrieval / cache engine of bazaria-backend         *)
(* (src/hybrid_search.py): the two TTL caches (EmbeddingCache,             *)
(* ResultCache) and the search operations of HybridSearchAPI.              *)
(*                                                                         *)
(* Strings are sequences of one-character strings.  Time is counted in     *)
(* hours (the unit of duration_hours).  Scores are counted in hundredths   *)
(* (1.0 is 100, 0.05 is 5).                                                *)
(***************************************************************************)
EXTENDS Integers, Sequences, FiniteSets, TLC

VARIABLES
    now,                   \* datetime.now(), in hours
    ticks,                 \* number of clock advances so far
    ops,                   \* number of operations performed so far
    embedding_cache,       \* EmbeddingCache.cache (dict key -> entry)
    result_cache,          \* ResultCache.cache (dict key -> entry)
    embedding_cache_file,  \* content of embedding_cache.json
    result_cache_file,     \* content of result_cache.json
    written,               \* history: per cache, the last write per trimmed/folded query
    last,                  \* history: the last cache operation and what it returned
    search_api,            \* the HybridSearchAPI object: which components it holds
    response,              \* what the last search operation returned, until it is read
    trace,                 \* history: what the last search operation met and did
    cache_objects,         \* the ResultCache objects of the processes sharing result_cache.json
    index,                 \* the index directory and the update_index/rebuild_index run over it
    request,               \* a hybrid_search request in flight and the services it calls
    pagination             \* a paginated retrieval of the document store in progress

\* the state of the concurrent processes
procVars == <<cache_objects, index, request, pagination>>

vars == <<now, ticks, ops, embedding_cache, result_cache,
          embedding_cache_file, result_cache_file, written, last,
          search_api, response, trace, cache_objects, index, request,
          pagination>>

(***************************************************************************)
(* Bounds of the model.                                                    *)
(***************************************************************************)
MaxTicks == 3
MaxStoreSize == 51         \* listings in the store of a paginated retrieval
MaxCacheOps == 2
NumListings == 2
MaxDocs == 2
MaxLimit == 2
MaxRank == 8
MaxDistanceSteps == 24
MaxRetrieved == 3
MaxSets == 2
MaxRuns == 2

(***************************************************************************)
(* Program constants.                                                      *)
(***************************************************************************)
EmbeddingDurationHours == 24
ResultDurationHours == 2

None == "None"

\* A cache file is the map it holds; no file and a file that cannot be read
\* or parsed are two maps no cache can hold.
NoFile == [k \in {<<"no file">>} |-> None]
CorruptFile == [k \in {<<"unreadable file">>} |-> None]

\* The clock advances by one hour, or by the gap between the two TTLs, so
\* that both expiry boundaries are reached within MaxTicks advances.
TickSteps == {1, EmbeddingDurationHours - ResultDurationHours}

\* Nothing changes once every entry written so far has expired in both caches.
Horizon == EmbeddingDurationHours + ResultDurationHours

(***************************************************************************)
(* Strings: str.lower() and str.strip().                                   *)
(***************************************************************************)
Whitespace == {" "}

LowerChar(c) ==
    CASE c = "V" -> "v"
      [] c = "B" -> "b"
      [] c = "T" -> "t"
      [] c = "L" -> "l"
      [] c = "P" -> "p"
      [] c = "C" -> "c"
      [] c = "D" -> "d"
      [] c = "E" -> "e"
      [] OTHER -> c

Lower(s) == [i \in 1..Len(s) |-> LowerChar(s[i])]

RECURSIVE LStrip(_)
LStrip(s) ==
    IF s # <<>> /\ Head(s) \in Whitespace THEN LStrip(Tail(s)) ELSE s

RECURSIVE RStrip(_)
RStrip(s) ==
    IF s # <<>> /\ s[Len(s)] \in Whitespace
    THEN RStrip(SubSeq(s, 1, Len(s) - 1))
    ELSE s

Strip(s) == RStrip(LStrip(s))

\* query.lower() only: a plausible slip that forgets .strip()
NormalizeNoStrip(query) == Lower(query)

\* query_lower = query.lower().strip()
Normalize(query) == Strip(Lower(query))

\* The raw queries the operations are called with.
Queries ==
    { <<"v">>, <<" ", "V">>, <<"V", " ">>, <<"b">> }

(***************************************************************************)
(* The caches.  A cache is a function from normalized keys to entries      *)
(* [value, timestamp]; the value is the entry's 'embedding' or 'results'.  *)
(***************************************************************************)
CacheNames == {"embedding", "result"}

Duration(c) ==
    IF c = "embedding" THEN EmbeddingDurationHours ELSE ResultDurationHours

EmptyCache == [k \in {} |-> None]

\* get returned None
NotFound == [found |-> FALSE, value |-> <<>>]

\* off-by-one slip: an entry exactly ttl old still counts as valid
IsValidInclusive(data, duration_hours, t) ==
    t - data.timestamp <= duration_hours

\* datetime.now() - cache_time < timedelta(hours=self.duration_hours)
IsValid(data, duration_hours, t) ==
    t - data.timestamp < duration_hours

\* the value get(query) returns at time t
CacheGetValue(cache, duration_hours, query, t) ==
    LET query_lower == Normalize(query) IN
    IF query_lower \in DOMAIN cache /\ IsValid(cache[query_lower], duration_hours, t)
    THEN [found |-> TRUE, value |-> cache[query_lower].value]
    ELSE NotFound

\* the in-memory map after get(query) at time t: an expired entry is deleted
CacheAfterGet(cache, duration_hours, query, t) ==
    LET query_lower == Normalize(query) IN
    IF query_lower \in DOMAIN cache /\ ~IsValid(cache[query_lower], duration_hours, t)
    THEN [k \in DOMAIN cache \ {query_lower} |-> cache[k]]
    ELSE cache

\* the in-memory map after set(query, value) at time t
CacheAfterSet(cache, query, value, t) ==
    LET query_lower == Normalize(query) IN
    [k \in DOMAIN cache \cup {query_lower} |->
        IF k = query_lower THEN [value |-> value, timestamp |-> t] ELSE cache[k]]

\* _save_cache: the whole map is dumped to the file; an exception is logged
\* and swallowed, leaving the file as it was (open failed) or truncated
\* (the dump failed after open(..., 'w')).
SaveOutcomes == {"ok", "open_error", "write_error"}

\* a slip: the entries of the map are merged into the file's content
SaveCacheMerging(cache, file, outcome) ==
    CASE outcome = "ok" ->
             IF file \in {NoFile, CorruptFile} THEN cache
             ELSE [k \in DOMAIN file \cup DOMAIN cache |->
                      IF k \in DOMAIN cache THEN cache[k] ELSE file[k]]
      [] outcome = "open_error" -> file
      [] OTHER -> CorruptFile

SaveCache(cache, file, outcome) ==
    CASE outcome = "ok" -> cache
      [] outcome = "open_error" -> file
      [] OTHER -> CorruptFile

\* a slip: what was parsed before the error is kept
LoadCacheKeepingGarbage(file, duration_hours, t) ==
    IF file = NoFile THEN EmptyCache
    ELSE IF file = CorruptFile
         THEN [k \in {<<"?">>} |-> [value |-> <<"?">>, timestamp |-> t]]
         ELSE [k \in {k \in DOMAIN file : IsValid(file[k], duration_hours, t)} |->
                  file[k]]

\* a slip: the new instance never reads the file
LoadCacheIgnoringFile(file, duration_hours, t) == EmptyCache

\* _load_cache at time t: no file, or a file that cannot be read or parsed
\* (the exception is caught), give {}; otherwise the entries still valid
LoadCache(file, duration_hours, t) ==
    IF file = NoFile THEN EmptyCache
    ELSE IF file = CorruptFile THEN EmptyCache
         ELSE [k \in {k \in DOMAIN file : IsValid(file[k], duration_hours, t)} |->
                  file[k]]

(***************************************************************************)
(* The document store and the index.                                       *)
(***************************************************************************)
Ids == 1..NumListings

\* The listings of the document store (title, description, price, location).
Documents ==
    [ id \in Ids |->
        [ title       |-> IF id % 2 = 1 THEN <<"V">> ELSE <<"b">>,
          description |-> IF id % 3 = 0 THEN <<"v">> ELSE <<"b">>,
          price       |-> 50 + 100 * (id - 1),
          location    |-> <<"p">> ] ]

\* db.get_document(document_id=id), when it resolves
Listing(id) == Documents[id]

Join(ss) == ss[1] \o ss[2] \o ss[3] \o ss[4] \o ss[5] \o ss[6] \o ss[7]

\* format_annonce: the page content of the listing's document in the index
\* (the price is written as one character; no criteria lines)
PageContent(id) ==
    Join(<< <<"T", "i", "t", "r", "e", " ", ":", " ">>, Listing(id).title,
            <<"\n", "L", "o", "c", "a", "l", "i", "s", "a", "t", "i", "o", "n",
              " ", ":", " ">>, Listing(id).location,
            <<"\n", "P", "r", "i", "x", " ", ":", " ", "#", " ", "E", "\n",
              "C", "a", "r", "a", "c", "t", "e", "r", "i", "s", "t", "i", "q",
              "u", "e", "s", " ", ":", "\n", "\n",
              "D", "e", "s", "c", "r", "i", "p", "t", "i", "o", "n", " ", ":",
              "\n">>, Listing(id).description, <<>> >>)

\* doc.page_content.lower(), for each document of the index
ContentLower == [id \in Ids |-> Lower(PageContent(id))]

\* word in text (Python's substring test)
IsSubstr(word, text) ==
    \E i \in 0..(Len(text) - Len(word)) :
        \A j \in 1..Len(word) : text[i + j] = word[j]

\* str.split(): the maximal runs of non-whitespace characters
RECURSIVE SplitFrom(_, _, _)
SplitFrom(s, cur, acc) ==
    IF s = <<>>
    THEN IF cur = <<>> THEN acc ELSE Append(acc, cur)
    ELSE IF Head(s) \in Whitespace
         THEN SplitFrom(Tail(s), <<>>, IF cur = <<>> THEN acc ELSE Append(acc, cur))
         ELSE SplitFrom(Tail(s), Append(cur, Head(s)), acc)

Split(s) == SplitFrom(s, <<>>, <<>>)

Min(a, b) == IF a < b THEN a ELSE b
Max(a, b) == IF a > b THEN a ELSE b

\* a slip: the slice keeps one element too many
SliceOneMore(s, limit) == SubSeq(s, 1, Min(Len(s), limit + 1))

\* a slip: the slice keeps the last elements, s[-limit:]
SliceTail(s, limit) == SubSeq(s, Len(s) - Min(Len(s), Max(limit, 0)) + 1, Len(s))

\* a slip: the list is not truncated
SliceIgnoringLimit(s, limit) == s

\* s[:limit], with Python's meaning of a negative limit
Slice(s, limit) ==
    IF limit >= 0
    THEN SubSeq(s, 1, Min(Len(s), limit))
    ELSE SubSeq(s, 1, Max(Len(s) + limit, 0))

\* a slip: an unstable sort, ties come out in reverse insertion order
RECURSIVE InsertByScoreUnstable(_, _)
InsertByScoreUnstable(sorted, x) ==
    IF sorted = <<>> THEN <<x>>
    ELSE IF Head(sorted).score > x.score
         THEN <<Head(sorted)>> \o InsertByScoreUnstable(Tail(sorted), x)
         ELSE <<x>> \o sorted

\* list.sort(key=lambda x: x['score'], reverse=True): stable, descending
RECURSIVE InsertByScore(_, _)
InsertByScore(sorted, x) ==
    IF sorted = <<>> THEN <<x>>
    ELSE IF Head(sorted).score >= x.score
         THEN <<Head(sorted)>> \o InsertByScore(Tail(sorted), x)
         ELSE <<x>> \o sorted

RECURSIVE SortFrom(_, _)
SortFrom(rest, sorted) ==
    IF rest = <<>> THEN sorted
    ELSE SortFrom(Tail(rest), InsertByScore(sorted, Head(rest)))

SortByScoreDesc(results) == SortFrom(results, <<>>)

\* the ids of a list of documents or results, in order
IdsOf(results) == [i \in 1..Len(results) |-> results[i].id]
IdSet(results) == {results[i].id : i \in 1..Len(results)}

(***************************************************************************)
(* CustomReranker.                                                         *)
(***************************************************************************)
RerankMaxResults == 15

PriceWords ==
    { <<"p", "a", "s", " ", "c", "h", "e", "r">>,
      <<"b", "o", "n", " ", "p", "r", "i", "x">>,
      <<"e", "c", "o", "n", "o", "m", "i", "q", "u", "e">>,
      <<"a", "b", "o", "r", "d", "a", "b", "l", "e">> }

Cities ==
    { <<"p", "a", "r", "i", "s">>, <<"l", "y", "o", "n">>,
      <<"m", "a", "r", "s", "e", "i", "l", "l", "e">>,
      <<"t", "o", "u", "l", "o", "u", "s", "e">> }

\* a slip: the adjusted score is returned without the clamping
CalculateRerankScoreUnclamped(query, result, position) ==
    result.score - position * 2

\* _calculate_rerank_score, in hundredths
CalculateRerankScore(query, result, position) ==
    LET title == Lower(result.title)
        description == Lower(result.description)
        location == Lower(result.location)
        query_lower == Lower(query)
        query_words == Split(query_lower)
        matching == {i \in 1..Len(query_words) :
                        \/ IsSubstr(query_words[i], title)
                        \/ IsSubstr(query_words[i], description)}
        exact_match_bonus == 10 * Cardinality(matching)
        semantic_bonus ==
            (IF \E i \in 1..Len(query_words) : IsSubstr(query_words[i], title)
             THEN 20 ELSE 0)
            + (IF \E i \in 1..Len(query_words) : IsSubstr(query_words[i], description)
               THEN 10 ELSE 0)
        price_bonus ==
            IF \E w \in PriceWords : IsSubstr(w, query_lower)
            THEN (IF result.price < 10000 THEN 30
                  ELSE IF result.price < 20000 THEN 10 ELSE 0)
            ELSE 0
        location_bonus ==
            IF /\ \E w \in Cities : IsSubstr(w, query_lower)
               /\ \E city \in Cities : IsSubstr(city, location)
            THEN 20 ELSE 0
        position_penalty == position * 2
        final_score == result.score + exact_match_bonus + semantic_bonus
                       + price_bonus + location_bonus - position_penalty
    IN Max(50, Min(100, final_score))

\* a slip: results with a low score are dropped instead of being rescaled
RerankDroppingWeak(query, results, max_results) ==
    Slice(SortByScoreDesc(SelectSeq(results, LAMBDA r : r.score > 60)), max_results)

\* CustomReranker.rerank
Rerank(query, results, max_results) ==
    IF results = <<>> THEN results
    ELSE LET reranked_results ==
                 [i \in 1..Len(results) |->
                     [ id |-> results[i].id,
                       title |-> results[i].title,
                       description |-> results[i].description,
                       price |-> results[i].price,
                       location |-> results[i].location,
                       original_score |-> results[i].score,
                       score |-> CalculateRerankScore(query, results[i], i - 1),
                       match_type |-> Append(results[i].match_type, "reranked"),
                       rerank_position |-> i ]]
         IN Slice(SortByScoreDesc(reranked_results), max_results)

\* _apply_reranking (the reranker itself raises nothing)
ApplyReranking(has_reranker, query, results, max_results) ==
    IF ~has_reranker \/ Len(results) = 0 THEN results
    ELSE Rerank(query, results, max_results)

(***************************************************************************)
(* HybridSearchAPI._calculate_similarity_score, in fixed point.  Distances *)
(* and the returned score are counted in hundredths; the exponential and   *)
(* the sigmoid are computed in thousandths.                                *)
(***************************************************************************)
\* the sum of the Taylor series of exp(y / 1000) * 1000, for y >= 0
RECURSIVE ExpTerms(_, _, _, _)
ExpTerms(y, k, term, acc) ==
    IF term = 0 THEN acc
    ELSE ExpTerms(y, k + 1, (term * y) \div (k * 1000), acc + term)

\* math.exp(-x), x and the result in thousandths
ExpNeg(x) ==
    IF x >= 0 THEN (1000 * 1000) \div ExpTerms(x, 1, 1000, 0)
    ELSE ExpTerms(0 - x, 1, 1000, 0)

\* a slip: the sigmoid's value is returned as it is
FinalScoreUnadjusted(normalized_score) == normalized_score

\* final_score = 0.5 + (normalized_score * 0.5), in thousandths
FinalScore(normalized_score) == 500 + normalized_score \div 2

CalculateSimilarityScore(distance, position, max_position) ==
    IF max_position = 0
    THEN \* ZeroDivisionError: the except branch
         Max(50, 100 - position * 5)
    ELSE LET normalized_distance == Max(0, Min(100, distance))
             distance_score == 100 - normalized_distance
             \* in ten-thousandths
             position_weight == 10000 - (3000 * position) \div max_position
             hybrid_score == 70 * distance_score + (3 * position_weight) \div 10
             \* -5 * (hybrid_score - 0.5) is -x, x in thousandths
             x == (5 * (hybrid_score - 5000)) \div 10
             normalized_score == (1000 * 1000) \div (1000 + ExpNeg(x))
         IN FinalScore(normalized_score) \div 10

(***************************************************************************)
(* HybridSearchAPI: the retrieval paths.                                   *)
(*                                                                         *)
(* The answers of the external collaborators during one operation are an   *)
(* environment record env:                                                 *)
(*   list_ok  the paginated list_documents calls succeed                   *)
(*   text     similarity_search(query, k=20): [ok, docs]                   *)
(*   mq       multi_query_retriever.get_relevant_documents: [ok, docs]     *)
(*   embed_ok embeddings.embed_query succeeds                              *)
(*   ann      similarity_search_by_vector: [ok, docs]                      *)
(*   gone     the ids get_document does not resolve                        *)
(*   rsave, esave  the outcome of the cache files' writes                  *)
(* The state of the API object is a record api:                            *)
(*   vectorstore, multi_query_retriever, reranker, db (present or not).    *)
(***************************************************************************)
PageLimit == 25
HybridMinScore == 70
FilterMinScore == 60
RouteMinScore == 80
AdvancedMinScore == 70
AdvancedMaxResults == 15

\* embeddings.embed_query(query): a vector that depends on the text embedded
Embed(query) == <<"vector">> \o query

\* `if cached_results:` / `if cached_embedding:`: None and [] are both falsy
Truthy(got) == got.found /\ got.value # <<>>

\* the paginated retrieval loop over a store of n listings: what it collects
RECURSIVE PaginateFrom(_, _, _)
PaginateFrom(store, offset, all_announcements) ==
    LET announcements ==
            SubSeq(store, offset + 1, Min(Len(store), offset + PageLimit))
    IN IF Len(announcements) = 0 THEN all_announcements
       ELSE IF Len(announcements) < PageLimit
            THEN all_announcements \o announcements
            ELSE PaginateFrom(store, offset + PageLimit,
                              all_announcements \o announcements)

Paginate(store) == PaginateFrom(store, 0, <<>>)

\* _get_announcement_details returns a document (not None)
Resolves(api, env, id) == api.db /\ id \notin env.gone

SearchResult(id, match_type, score) ==
    [ id |-> id,
      title |-> Listing(id).title,
      description |-> Listing(id).description,
      price |-> Listing(id).price,
      location |-> Listing(id).location,
      match_type |-> match_type,
      score |-> score ]

\* text_search
TextSearchFirstHit(api, env, query) ==
    IF ~api.vectorstore \/ ~env.text.ok \/ env.text.docs = <<>> THEN <<>>
    ELSE LET id == Head(env.text.docs)
         IN IF IsSubstr(Lower(query), ContentLower[id]) /\ Resolves(api, env, id)
            THEN <<SearchResult(id, <<"text">>, 100)>>
            ELSE <<>>

TextSearch(api, env, query) ==
    IF ~api.vectorstore \/ ~env.text.ok THEN <<>>
    ELSE LET query_lower == Lower(query)
             docs == env.text.docs
             hits == SelectSeq(docs, LAMBDA id :
                        /\ IsSubstr(query_lower, ContentLower[id])
                        /\ Resolves(api, env, id))
         IN [i \in 1..Len(hits) |-> SearchResult(hits[i], <<"text">>, 100)]

\* the deduplication of the retriever's documents by id (first occurrence kept)
RECURSIVE UniqueFrom(_, _, _)
UniqueFrom(docs, seen_ids, unique_results) ==
    IF docs = <<>> THEN unique_results
    ELSE IF Head(docs) \notin seen_ids
         THEN UniqueFrom(Tail(docs), seen_ids \cup {Head(docs)},
                         Append(unique_results, Head(docs)))
         ELSE UniqueFrom(Tail(docs), seen_ids, unique_results)

Unique(docs) == UniqueFrom(docs, {}, <<>>)

\* the scored, formatted list of a retrieval: rank i (from 0) scores
\* max(1.0 - i * step, min_score), and unresolved listings are dropped
RECURSIVE FormatFrom(_, _, _, _, _, _, _)
FormatFrom(api, env, docs, i, step, min_score, match_type) ==
    IF docs = <<>> THEN <<>>
    ELSE LET score == Max(100 - i * step, min_score)
             rest == FormatFrom(api, env, Tail(docs), i + 1, step, min_score,
                                match_type)
         IN IF score >= min_score /\ Resolves(api, env, Head(docs))
            THEN <<SearchResult(Head(docs), match_type, score)>> \o rest
            ELSE rest

\* what an operation leaves behind and returns; path "raised": an exception
\* leaves the operation instead of a value.  embeds counts the embed_query
\* calls of the vector resolution, vector is the argument of
\* similarity_search_by_vector (<<>> when it was not called)
Outcome(ret, path, calls, rc, rcf, ec, ecf) ==
    [ ret |-> ret, path |-> path, calls |-> calls, text |-> <<>>, semantic |-> ret,
      embeds |-> 0, vector |-> <<>>,
      result_cache |-> rc, result_cache_file |-> rcf,
      embedding_cache |-> ec, embedding_cache_file |-> ecf ]

DetailCalls(docs) == IF docs = <<>> THEN {} ELSE {"document_store"}

\* a slip: the embedding is computed without consulting the cache
ResolveVectorAlwaysEmbedding(env, st, query, t) ==
    IF ~env.embed_ok
    THEN [ raised |-> TRUE, vector |-> <<>>, embeds |-> 1,
           embedding_cache |-> st.embedding_cache,
           embedding_cache_file |-> st.embedding_cache_file ]
    ELSE LET ec2 == CacheAfterSet(st.embedding_cache, query, Embed(query), t)
         IN [ raised |-> FALSE, vector |-> Embed(query), embeds |-> 1,
              embedding_cache |-> ec2,
              embedding_cache_file |->
                  SaveCache(ec2, st.embedding_cache_file, env.esave) ]

\* the resolution of the query vector: embedding_cache.get(query), and on a
\* miss embed_query(query) followed by embedding_cache.set(query, embedding)
ResolveVector(env, st, query, t) ==
    LET got == CacheGetValue(st.embedding_cache, EmbeddingDurationHours, query, t)
        ec1 == CacheAfterGet(st.embedding_cache, EmbeddingDurationHours, query, t)
    IN IF Truthy(got)
       THEN [ raised |-> FALSE, vector |-> got.value, embeds |-> 0,
              embedding_cache |-> ec1,
              embedding_cache_file |-> st.embedding_cache_file ]
       ELSE IF ~env.embed_ok
            THEN [ raised |-> TRUE, vector |-> <<>>, embeds |-> 1,
                   embedding_cache |-> ec1,
                   embedding_cache_file |-> st.embedding_cache_file ]
            ELSE LET ec2 == CacheAfterSet(ec1, query, Embed(query), t)
                 IN [ raised |-> FALSE, vector |-> Embed(query), embeds |-> 1,
                      embedding_cache |-> ec2,
                      embedding_cache_file |->
                          SaveCache(ec2, st.embedding_cache_file, env.esave) ]

\* the k first documents of the index's ranking
TopK(docs, k) == SubSeq(docs, 1, Min(Len(docs), k))

\* the vector retrieval: the resolved vector is handed to
\* similarity_search_by_vector(vector, k=k); results is applied to its answer
ByVector(env, st, query, t, k, path) ==
    LET similarity_search_by_vector(v, docs) ==
            [ ret |-> IF ~v.raised /\ env.ann.ok THEN docs ELSE <<>>,
              path |-> IF ~v.raised /\ env.ann.ok THEN path ELSE "raised",
              calls |-> (IF ~v.raised /\ env.ann.ok THEN DetailCalls(docs) ELSE {})
                        \cup (IF v.embeds > 0 THEN {"embedding"} ELSE {})
                        \cup (IF ~v.raised THEN {"ann"} ELSE {}),
              text |-> <<>>,
              semantic |-> IF ~v.raised /\ env.ann.ok THEN docs ELSE <<>>,
              embeds |-> v.embeds,
              vector |-> IF ~v.raised THEN v.vector ELSE <<>>,
              result_cache |-> st.result_cache,
              result_cache_file |-> st.result_cache_file,
              embedding_cache |-> v.embedding_cache,
              embedding_cache_file |-> v.embedding_cache_file ]
    IN similarity_search_by_vector(ResolveVector(env, st, query, t),
                                   TopK(env.ann.docs, k))

\* the formatted results in the place of the retrieved documents
WithResults(found, results) ==
    IF found.path = "raised" THEN found
    ELSE [found EXCEPT !.ret = results, !.semantic = results]

\* _semantic_search_fallback; its exceptions are not caught here
SemanticSearchFallback(api, env, st, query, min_score, t) ==
    LET format(found) ==
            WithResults(found,
                        SortByScoreDesc(FormatFrom(api, env, found.ret, 0, 10,
                                                   min_score, <<"semantic_fallback">>)))
    IN format(ByVector(env, st, query, t, 20, "fallback"))

\* a slip: the expansion's failure is answered with an empty list
NoFallback(api, env, st, query, min_score, t) ==
    Outcome(<<>>, "failed", {},
            st.result_cache, st.result_cache_file,
            st.embedding_cache, st.embedding_cache_file)

\* the handler of the inner try: `except Exception` around the expansion
OnExpansionError(api, env, st, query, min_score, t) ==
    SemanticSearchFallback(api, env, st, query, min_score, t)

\* a slip: the exception is left to the caller
Reraise(out) == out

\* the handler of the outer try of the semantic operations:
\* `except Exception` returns []
OnSemanticError(out) ==
    IF out.path = "raised"
    THEN [out EXCEPT !.ret = <<>>, !.semantic = <<>>, !.path = "failed"]
    ELSE out

\* semantic_search
SemanticSearch(api, env, st, query, min_score, t) ==
    IF ~api.vectorstore
    THEN Outcome(<<>>, "unavailable", {},
                 st.result_cache, st.result_cache_file,
                 st.embedding_cache, st.embedding_cache_file)
    ELSE
    LET cached_results == CacheGetValue(st.result_cache, ResultDurationHours, query, t)
        rc1 == CacheAfterGet(st.result_cache, ResultDurationHours, query, t)
        st1 == [st EXCEPT !.result_cache = rc1]
    IN IF Truthy(cached_results)
       THEN Outcome(cached_results.value, "cache_hit", {},
                    rc1, st.result_cache_file,
                    st.embedding_cache, st.embedding_cache_file)
       ELSE IF api.multi_query_retriever /\ env.mq.ok
       THEN LET unique_results == Unique(env.mq.docs)
                formatted ==
                    SortByScoreDesc(FormatFrom(api, env, unique_results, 0, 5,
                                               min_score, <<"semantic_multi_query">>))
                semantic_results ==
                    ApplyReranking(api.reranker, query, formatted, RerankMaxResults)
                rc2 == CacheAfterSet(rc1, query, semantic_results, t)
            IN Outcome(semantic_results, "multi_query",
                       {"llm", "embedding", "ann"} \cup DetailCalls(unique_results),
                       rc2, SaveCache(rc2, st.result_cache_file, env.rsave),
                       st.embedding_cache, st.embedding_cache_file)
       ELSE LET fb == OnExpansionError(api, env, st1, query, min_score, t)
            IN OnSemanticError(
                   [fb EXCEPT !.calls =
                       @ \cup (IF api.multi_query_retriever THEN {"llm"} ELSE {})])

\* the formatted list of a retrieval scored by _calculate_similarity_score:
\* rank i (from 0) of n documents has the distance proxy i * step
RECURSIVE FormatScored(_, _, _, _, _, _, _, _)
FormatScored(api, env, docs, i, n, step, min_score, match_type) ==
    IF docs = <<>> THEN <<>>
    ELSE LET score == CalculateSimilarityScore(i * step, i, n)
             rest == FormatScored(api, env, Tail(docs), i + 1, n, step, min_score,
                                  match_type)
         IN IF score >= min_score /\ Resolves(api, env, Head(docs))
            THEN <<SearchResult(Head(docs), match_type, score)>> \o rest
            ELSE rest

\* the same with the deduplication by seen_ids of semantic_search_advanced:
\* the rank is the position in the retriever's list, repetitions included
RECURSIVE FormatAdvanced(_, _, _, _, _, _, _)
FormatAdvanced(api, env, docs, i, n, seen_ids, min_score) ==
    IF docs = <<>> THEN <<>>
    ELSE LET doc_id == Head(docs)
             score == CalculateSimilarityScore(i * 5, i, n)
             rest == FormatAdvanced(api, env, Tail(docs), i + 1, n,
                                    seen_ids \cup {doc_id}, min_score)
         IN IF doc_id \notin seen_ids /\ score >= min_score
               /\ Resolves(api, env, doc_id)
            THEN <<SearchResult(doc_id, <<"semantic_advanced_multi_query">>, score)>>
                 \o rest
            ELSE rest

\* [r for r in cached_results if r['score'] >= min_score][:max_results]
CachedFiltered(cached_results, min_score, max_results) ==
    Slice(SelectSeq(cached_results, LAMBDA r : r.score >= min_score), max_results)

\* _semantic_search_advanced_fallback; its exceptions are not caught here
SemanticSearchAdvancedFallback(api, env, st, query, min_score, max_results, t) ==
    LET format(found) ==
            WithResults(found,
                        Slice(SortByScoreDesc(
                                  FormatScored(api, env, found.ret, 0, Len(found.ret),
                                               10, min_score,
                                               <<"semantic_advanced_fallback">>)),
                              max_results))
    IN format(ByVector(env, st, query, t, max_results * 2, "advanced_fallback"))

\* semantic_search_advanced
SemanticSearchAdvanced(api, env, st, query, min_score, max_results, t) ==
    IF ~api.vectorstore
    THEN Outcome(<<>>, "unavailable", {},
                 st.result_cache, st.result_cache_file,
                 st.embedding_cache, st.embedding_cache_file)
    ELSE
    LET cached_results == CacheGetValue(st.result_cache, ResultDurationHours, query, t)
        rc1 == CacheAfterGet(st.result_cache, ResultDurationHours, query, t)
        st1 == [st EXCEPT !.result_cache = rc1]
    IN IF Truthy(cached_results)
       THEN Outcome(CachedFiltered(cached_results.value, min_score, max_results),
                    "cache_hit", {}, rc1, st.result_cache_file,
                    st.embedding_cache, st.embedding_cache_file)
       ELSE IF api.multi_query_retriever /\ env.mq.ok
       THEN LET multi_query_results == env.mq.docs
                formatted ==
                    Slice(SortByScoreDesc(
                              FormatAdvanced(api, env, multi_query_results, 0,
                                             Len(multi_query_results), {}, min_score)),
                          max_results)
                semantic_results ==
                    ApplyReranking(api.reranker, query, formatted, max_results)
                rc2 == CacheAfterSet(rc1, query, semantic_results, t)
            IN Outcome(semantic_results, "advanced_multi_query",
                       {"llm", "embedding", "ann"} \cup DetailCalls(multi_query_results),
                       rc2, SaveCache(rc2, st.result_cache_file, env.rsave),
                       st.embedding_cache, st.embedding_cache_file)
       ELSE LET fb == SemanticSearchAdvancedFallback(api, env, st1, query, min_score,
                                                     max_results, t)
            IN OnSemanticError(
                   [fb EXCEPT !.calls =
                       @ \cup (IF api.multi_query_retriever THEN {"llm"} ELSE {})])

\* semantic_search_with_real_scores
SemanticSearchWithRealScores(api, env, st, query, min_score, max_results, t) ==
    IF ~api.vectorstore
    THEN Outcome(<<>>, "unavailable", {},
                 st.result_cache, st.result_cache_file,
                 st.embedding_cache, st.embedding_cache_file)
    ELSE
    LET cached_results == CacheGetValue(st.result_cache, ResultDurationHours, query, t)
        rc1 == CacheAfterGet(st.result_cache, ResultDurationHours, query, t)
        st1 == [st EXCEPT !.result_cache = rc1]
    IN IF Truthy(cached_results)
       THEN Outcome(CachedFiltered(cached_results.value, min_score, max_results),
                    "cache_hit", {}, rc1, st.result_cache_file,
                    st.embedding_cache, st.embedding_cache_file)
       ELSE LET format(found) ==
                    WithResults(found,
                        Slice(SortByScoreDesc(
                                  FormatScored(api, env, found.ret, 0, Len(found.ret),
                                               10, min_score, <<"semantic">>)),
                              max_results))
                save(rc2, file) ==
                    [result_cache |-> rc2, file |-> SaveCache(rc2, file, env.rsave)]
                store(found, saved) ==
                    IF found.path = "raised" THEN OnSemanticError(found)
                    ELSE [found EXCEPT !.result_cache = saved.result_cache,
                                       !.result_cache_file = saved.file]
                cache(found) ==
                    store(found, save(CacheAfterSet(rc1, query, found.ret, t),
                                      st.result_cache_file))
            IN cache(format(ByVector(env, st1, query, t, max_results * 2,
                                     "real_scores")))

\* the elements of a list whose id did not occur earlier in the list
FirstOccurrences(all) ==
    LET firsts == {i \in 1..Len(all) : \A j \in 1..(i - 1) : all[j].id # all[i].id}
        marked == [i \in 1..Len(all) |-> [r |-> all[i], keep |-> i \in firsts]]
        kept == SelectSeq(marked, LAMBDA x : x.keep)
    IN [i \in 1..Len(kept) |-> kept[i].r]

\* a slip: semantic candidates are appended without looking at seen_ids
FuseNoDedup(text_results, semantic_results) ==
    FirstOccurrences(text_results) \o semantic_results

\* a slip: the semantic candidates are inserted first
FuseSemanticFirst(text_results, semantic_results) ==
    FirstOccurrences(semantic_results \o text_results)

\* the fusion: text results first, then the semantic results whose id is new
Fuse(text_results, semantic_results) ==
    FirstOccurrences(text_results \o semantic_results)

TextCalls(api, env) ==
    IF ~api.vectorstore THEN {}
    ELSE {"embedding", "ann"} \cup (IF env.text.ok THEN DetailCalls(env.text.docs) ELSE {})

ErrorResult == [kind |-> "error"]

\* hybrid_search
HybridSearch(api, env, st, query, limit, t) ==
    IF ~api.db \/ ~env.list_ok
    THEN [Outcome(<<>>, "error", IF api.db THEN {"document_store"} ELSE {},
                  st.result_cache, st.result_cache_file,
                  st.embedding_cache, st.embedding_cache_file)
             EXCEPT !.ret = ErrorResult]
    ELSE LET all_announcements == Paginate([i \in 1..NumListings |-> i])
             text_results == TextSearch(api, env, query)
             sem == SemanticSearch(api, env, st, query, HybridMinScore, t)
             semantic_results == sem.ret
             combined_results ==
                 Slice(SortByScoreDesc(Fuse(text_results, semantic_results)), limit)
         IN [sem EXCEPT
                !.ret = [ kind |-> "response",
                          query |-> query,
                          total_results |-> Len(combined_results),
                          text_results |-> Len(text_results),
                          semantic_results |-> Len(semantic_results),
                          results |-> combined_results ],
                !.text = text_results,
                !.calls = {"document_store"} \cup TextCalls(api, env) \cup sem.calls]

WithinPriceIgnored(result, max_price, min_price) == TRUE

\* the price constraints; an absent bound is the empty set
WithinPrice(result, max_price, min_price) ==
    /\ \A m \in max_price : ~(result.price > m)
    /\ \A m \in min_price : ~(result.price < m)

\* search_with_filters
SearchWithFilters(api, env, st, query, max_price, min_price, limit, t) ==
    LET sem == SemanticSearch(api, env, st, query, FilterMinScore, t)
        semantic_results == sem.ret
    IN IF ~api.db \/ ~env.list_ok
       THEN [sem EXCEPT !.ret = [kind |-> "list", results |-> <<>>],
                        !.calls = @ \cup (IF api.db THEN {"document_store"} ELSE {})]
       ELSE LET text_results == TextSearch(api, env, query)
                combined_results == Fuse(text_results, semantic_results)
                filtered_results ==
                    SelectSeq(combined_results,
                              LAMBDA r : WithinPrice(r, max_price, min_price))
            IN [sem EXCEPT
                   !.ret = [ kind |-> "list",
                             results |-> Slice(SortByScoreDesc(filtered_results), limit) ],
                   !.text = text_results,
                   !.calls = @ \cup {"document_store"} \cup TextCalls(api, env)]

(***************************************************************************)
(* State, history variables and the cache operations called directly.      *)
(***************************************************************************)
\* what the words "trimmed, case-folded" of the data model mean
TrimFold(q) == Strip(Lower(q))

NoOp == [op |-> "none"]
NoResponse == [kind |-> "none"]

CacheOf(c) == IF c = "embedding" THEN embedding_cache ELSE result_cache

\* the values the cache operations are exercised with
CacheValues == { <<"x">>, <<"y">> }

\* the API objects _load_components can leave behind: a failure to load the
\* index returns before the document-store connection is made
ApiStates ==
    { [vectorstore |-> TRUE, multi_query_retriever |-> TRUE, reranker |-> r, db |-> d] :
          r \in BOOLEAN, d \in BOOLEAN }
    \cup { [vectorstore |-> v, multi_query_retriever |-> FALSE, reranker |-> FALSE,
            db |-> FALSE] : v \in BOOLEAN }

FullApi ==
    [vectorstore |-> TRUE, multi_query_retriever |-> TRUE, reranker |-> TRUE, db |-> TRUE]

\* the ResultCache objects that can exist over one result_cache.json: the
\* API process and a second process (api.py and api_local_real.py each
\* construct a HybridSearchAPI over the same file names)
CacheObjects == {1, 2}

NotConstructed == [pc |-> "none", cache |-> EmptyCache, done |-> {}]

\* the documents of an index, by listing id: how many documents carry the id
NoDocs == [id \in Ids |-> 0]
DocsOf(ids) == [id \in Ids |-> IF id \in ids THEN 1 ELSE 0]

\* the index directory before any update: the complete index an update_index
\* built when the store held listing 1 only, with its indexed_ids.json
InitIndex ==
    [dir |-> "complete", ids_file |-> TRUE, pc |-> "idle", op |-> "none",
     result |-> "none", loaded |-> "none", runs |-> 0,
     docs |-> DocsOf({1}), indexed_ids |-> {1},
     known |-> {}, listed |-> {}, new_ids |-> {}, staged |-> NoDocs,
     before |-> [dir |-> "complete", ids_file |-> TRUE]]

NoRequest == [pc |-> "idle"]

NoPagination == [pc |-> "idle"]

InitProcesses ==
    /\ cache_objects = [o \in CacheObjects |-> NotConstructed]
    /\ index = InitIndex
    /\ request = NoRequest
    /\ pagination = NoPagination

InitHistory ==
    /\ InitProcesses
    /\ ticks = 0
    /\ ops = 0
    /\ written = [c \in CacheNames |-> EmptyCache]
    /\ last = NoOp
    /\ response = NoResponse
    /\ trace = NoOp

EmptyState ==
    [ result_cache |-> EmptyCache, result_cache_file |-> NoFile,
      embedding_cache |-> EmptyCache, embedding_cache_file |-> NoFile ]

InitState ==
    /\ now = 0
    /\ embedding_cache = EmptyCache
    /\ result_cache = EmptyCache
    /\ embedding_cache_file = NoFile
    /\ result_cache_file = NoFile
    /\ InitHistory

InitCache == InitState /\ search_api = FullApi

Tick ==
    /\ ticks < MaxTicks
    /\ \E d \in TickSteps : now + d <= Horizon /\ now' = now + d
    /\ ticks' = ticks + 1
    /\ UNCHANGED procVars
    /\ UNCHANGED <<ops, embedding_cache, result_cache, embedding_cache_file,
                   result_cache_file, written, last, search_api, response, trace>>

\* EmbeddingCache.set / ResultCache.set called directly
CacheSet(c, query, value, outcome) ==
    /\ ops < MaxCacheOps
    /\ ops' = ops + 1
    /\ IF c = "embedding"
       THEN /\ embedding_cache' = CacheAfterSet(embedding_cache, query, value, now)
            /\ embedding_cache_file' =
                   SaveCache(embedding_cache', embedding_cache_file, outcome)
            /\ UNCHANGED <<result_cache, result_cache_file>>
       ELSE /\ result_cache' = CacheAfterSet(result_cache, query, value, now)
            /\ result_cache_file' =
                   SaveCache(result_cache', result_cache_file, outcome)
            /\ UNCHANGED <<embedding_cache, embedding_cache_file>>
    /\ written' = [written EXCEPT ![c] =
           [k \in DOMAIN written[c] \cup {TrimFold(query)} |->
               IF k = TrimFold(query)
               THEN [value |-> value, timestamp |-> now, query |-> query]
               ELSE written[c][k]]]
    /\ last' = [op |-> "set", cache |-> c, query |-> query, value |-> value,
                at |-> now, saved |-> outcome]
    /\ UNCHANGED procVars
    /\ UNCHANGED <<now, ticks, search_api, response, trace>>

\* EmbeddingCache.get / ResultCache.get called directly
CacheGet(c, query) ==
    /\ ops < MaxCacheOps
    /\ ops' = ops + 1
    /\ IF c = "embedding"
       THEN /\ embedding_cache' =
                   CacheAfterGet(embedding_cache, Duration(c), query, now)
            /\ UNCHANGED result_cache
       ELSE /\ result_cache' = CacheAfterGet(result_cache, Duration(c), query, now)
            /\ UNCHANGED embedding_cache
    /\ last' = [op |-> "get", cache |-> c, query |-> query,
                got |-> CacheGetValue(CacheOf(c), Duration(c), query, now),
                at |-> now]
    /\ UNCHANGED procVars
    /\ UNCHANGED <<now, ticks, embedding_cache_file, result_cache_file, written,
                   search_api, response, trace>>

NextCache ==
    \/ Tick
    \/ \E c \in CacheNames, q \in Queries, v \in CacheValues, o \in SaveOutcomes :
           CacheSet(c, q, v, o)
    \/ \E c \in CacheNames, q \in Queries : CacheGet(c, q)

SpecCache == InitCache /\ [][NextCache]_vars

(***************************************************************************)
(* The cache operations with a restart of the process: a new cache         *)
(* instance is constructed over the file the old one left.  `trace`        *)
(* records the load.                                                       *)
(***************************************************************************)
\* EmbeddingCache.__init__ / ResultCache.__init__ of the new process:
\* self.cache = self._load_cache()
Restart(c) ==
    /\ trace = NoOp
    /\ IF c = "embedding"
       THEN /\ embedding_cache' =
                   LoadCache(embedding_cache_file, Duration(c), now)
            /\ UNCHANGED result_cache
       ELSE /\ result_cache' = LoadCache(result_cache_file, Duration(c), now)
            /\ UNCHANGED embedding_cache
    /\ trace' = [op |-> "load", cache |-> c, at |-> now,
                 file |-> IF c = "embedding" THEN embedding_cache_file
                          ELSE result_cache_file]
    /\ last' = [op |-> "load", cache |-> c, at |-> now]
    /\ UNCHANGED procVars
    /\ UNCHANGED <<now, ticks, ops, embedding_cache_file, result_cache_file,
                   written, search_api, response>>

NextRestart ==
    \/ NextCache
    \/ \E c \in CacheNames : Restart(c)

SpecRestart == InitCache /\ [][NextRestart]_vars

(***************************************************************************)
(* POST /admin/reload-index between cache operations.  The route builds a  *)
(* new HybridSearchAPI (whose caches are loaded from the files) and puts   *)
(* it in the place of the global search_api the routes use.  `trace`       *)
(* records that the reload was requested, `last` its inputs and outcome.   *)
(***************************************************************************)
\* a slip: the global is assigned without looking at the vectorstore
ReloadSucceedsUnchecked(dir_exists, has_key, new_api) == dir_exists /\ has_key

\* the route reaches `search_api = new_api`: the index directory exists,
\* OPENAI_API_KEY is set and the new instance holds a vectorstore
ReloadSucceeds(dir_exists, has_key, new_api) ==
    dir_exists /\ has_key /\ new_api.vectorstore

\* every HTTPException raised in the try is caught by `except Exception`
\* and answered with 500
ReloadStatus(dir_exists, has_key, new_api) ==
    IF ReloadSucceeds(dir_exists, has_key, new_api) THEN 200 ELSE 500

\* reload_index; new_api is the instance HybridSearchAPI(...) would give
ReloadIndex(dir_exists, has_key, new_api) ==
    /\ trace = NoOp
    /\ dir_exists \/ ~new_api.vectorstore
    /\ IF ReloadSucceeds(dir_exists, has_key, new_api)
       THEN /\ search_api' = new_api
            /\ embedding_cache' =
                   LoadCache(embedding_cache_file, EmbeddingDurationHours, now)
            /\ result_cache' = LoadCache(result_cache_file, ResultDurationHours, now)
       ELSE UNCHANGED <<search_api, embedding_cache, result_cache>>
    /\ last' = [ op |-> "reload", dir_exists |-> dir_exists, has_key |-> has_key,
                 new_api |-> new_api, before |-> search_api,
                 result_cache_before |-> result_cache,
                 status |-> ReloadStatus(dir_exists, has_key, new_api) ]
    /\ trace' = [op |-> "reload"]
    /\ UNCHANGED procVars
    /\ UNCHANGED <<now, ticks, ops, embedding_cache_file, result_cache_file,
                   written, response>>

NextReload ==
    \/ NextCache
    \/ \E dir_exists \in BOOLEAN, has_key \in BOOLEAN, new_api \in ApiStates :
           ReloadIndex(dir_exists, has_key, new_api)

SpecReload == InitCache /\ [][NextReload]_vars

(***************************************************************************)
(* The caches constructed over the files an earlier process left: absent,  *)
(* unreadable, or holding an entry that is still valid or just expired.    *)
(***************************************************************************)
FileKinds == {"absent", "unreadable", "expired", "valid"}

FileContent(c, kind) ==
    CASE kind = "absent" -> NoFile
      [] kind = "unreadable" -> CorruptFile
      [] kind = "expired" ->
             [k \in {<<"v">>} |->
                 [value |-> <<"x">>,
                  timestamp |-> EmbeddingDurationHours - Duration(c)]]
      [] OTHER ->
             [k \in {<<"v">>} |->
                 [value |-> <<"x">>,
                  timestamp |-> EmbeddingDurationHours - Duration(c) + 1]]

\* EmbeddingCache.__init__ / ResultCache.__init__
InitLoad ==
    /\ now = EmbeddingDurationHours
    /\ \E kind \in FileKinds : embedding_cache_file = FileContent("embedding", kind)
    /\ \E kind \in FileKinds : result_cache_file = FileContent("result", kind)
    /\ embedding_cache = LoadCache(embedding_cache_file, EmbeddingDurationHours, now)
    /\ result_cache = LoadCache(result_cache_file, ResultDurationHours, now)
    /\ search_api = FullApi
    /\ InitProcesses
    /\ ticks = 0
    /\ ops = 0
    /\ written = [c \in CacheNames |-> EmptyCache]
    /\ last = NoOp
    /\ response = NoResponse
    /\ trace = [ op |-> "construct",
                 files |-> [c \in CacheNames |->
                              IF c = "embedding" THEN embedding_cache_file
                              ELSE result_cache_file] ]

SpecLoad == InitLoad /\ [][NextCache]_vars

\* the limit arguments: the request's limit is an unvalidated Optional[int]
Limits == (0 - 1)..MaxLimit

SearchQueries == { <<"v">>, <<" ", "V">>, <<"b">> }

(***************************************************************************)
(* The score model called on its own.                                      *)
(***************************************************************************)
Distances == {5 * i : i \in 0..MaxDistanceSteps}

\* _calculate_similarity_score(distance, position, max_position)
CalculateScore(distance, position, max_position) ==
    /\ last' = [ op |-> "score", distance |-> distance, position |-> position,
                 max_position |-> max_position,
                 score |-> CalculateSimilarityScore(distance, position, max_position) ]
    /\ UNCHANGED procVars
    /\ UNCHANGED <<now, ticks, ops, embedding_cache, result_cache,
                   embedding_cache_file, result_cache_file, written,
                   search_api, response, trace>>

NextScore ==
    \E distance \in Distances, max_position \in 1..MaxRank :
        \E position \in 0..(max_position - 1) :
            CalculateScore(distance, position, max_position)

SpecScore == InitCache /\ [][NextScore]_vars

(***************************************************************************)
(* The reranker called on its own.                                         *)
(***************************************************************************)
\* the scores of the results handed to the reranker
InputScores == {0, 60, 100, 150}

InputResults ==
    UNION { [1..n -> { SearchResult(id, <<"semantic">>, sc) :
                           id \in Ids, sc \in InputScores }] : n \in 0..MaxDocs }

\* CustomReranker.rerank(query, results, max_results)
DoRerank(query, results, max_results) ==
    /\ last' = [ op |-> "rerank", query |-> query, results |-> results,
                 limit |-> max_results,
                 out |-> Rerank(query, results, max_results) ]
    /\ UNCHANGED procVars
    /\ UNCHANGED <<now, ticks, ops, embedding_cache, result_cache,
                   embedding_cache_file, result_cache_file, written,
                   search_api, response, trace>>

NextRerank ==
    \E query \in SearchQueries, results \in InputResults, max_results \in Limits :
        DoRerank(query, results, max_results)

SpecRerank == InitCache /\ [][NextRerank]_vars

(***************************************************************************)
(* The search operations.                                                  *)
(***************************************************************************)
DocSeqs == UNION {[1..n -> Ids] : n \in 0..MaxDocs}

Raised == [ok |-> FALSE, docs |-> <<>>]
Retrievals == {[ok |-> TRUE, docs |-> d] : d \in DocSeqs} \cup {Raised}

GoneSets == {{}} \cup {{i} : i \in Ids}

\* (max_price, min_price); an absent bound is the empty set
PriceFilters == { <<{}, {}>>, <<{100}, {}>>, <<{}, {100}>> }

\* the max_results arguments of the advanced operations
AdvancedLimits == {1, AdvancedMaxResults}

\* the min_score arguments of semantic_search_advanced: the default and one
\* between the scores a second-ranked result has before and after reranking
AdvancedMinScores == {AdvancedMinScore, 93}

State ==
    [ result_cache |-> result_cache, result_cache_file |-> result_cache_file,
      embedding_cache |-> embedding_cache,
      embedding_cache_file |-> embedding_cache_file ]

BaseEnv ==
    [ mq |-> Raised, embed_ok |-> FALSE, ann |-> Raised, rsave |-> "ok",
      esave |-> "ok" ]

\* the answers of the collaborators the semantic path can meet in this state
\* (those it cannot consult are fixed; the cache files' writes succeed, their
\* failures are exercised by the cache operations called directly)
SemEnvs(query) ==
    LET hit == Truthy(CacheGetValue(result_cache, ResultDurationHours, query, now))
        ehit == Truthy(CacheGetValue(embedding_cache, EmbeddingDurationHours,
                                     query, now))
    IN IF ~search_api.vectorstore \/ hit THEN {BaseEnv}
       ELSE (IF search_api.multi_query_retriever
             THEN {[BaseEnv EXCEPT !.mq = [ok |-> TRUE, docs |-> d]] : d \in DocSeqs}
             ELSE {})
            \cup (IF ehit
                  THEN {[BaseEnv EXCEPT !.ann = a] : a \in Retrievals}
                  ELSE {BaseEnv} \cup
                       {[BaseEnv EXCEPT !.embed_ok = TRUE, !.ann = a] :
                            a \in Retrievals})

MkEnv(list_ok, text, gone, e) ==
    [ list_ok |-> list_ok, text |-> text, gone |-> gone, mq |-> e.mq,
      embed_ok |-> e.embed_ok, ann |-> e.ann, rsave |-> e.rsave, esave |-> e.esave ]

\* the environments of an operation that runs the lexical and the semantic
\* path; semantic_first: the semantic path runs before the store is listed
Envs(query, semantic_first) ==
    LET lexical == search_api.db /\ search_api.vectorstore IN
    { MkEnv(FALSE, Raised, {}, e) :
          e \in (IF semantic_first THEN SemEnvs(query) ELSE {BaseEnv}) }
    \cup (IF search_api.db
          THEN { MkEnv(TRUE, x, g, e) :
                     x \in (IF lexical THEN Retrievals ELSE {Raised}),
                     g \in GoneSets, e \in SemEnvs(query) }
          ELSE {})

(***************************************************************************)
(* The state after construction: the caches hold what _load_cache read     *)
(* from the files, that is, what searches of an earlier process left       *)
(* there.  An earlier search is a semantic_search(query, min_score) run    *)
(* `age` hours ago by an API object with the same components.              *)
(***************************************************************************)
Earlier ==
    { [query |-> <<"v">>,
       env |-> MkEnv(TRUE, Raised, {}, [BaseEnv EXCEPT !.mq = [ok |-> TRUE, docs |-> d]]),
       age |-> a] :
        d \in {<<1, 2>>, <<>>},
        a \in {ResultDurationHours - 1, ResultDurationHours} }
    \cup
    { [query |-> <<"v">>,
       env |-> MkEnv(TRUE, Raised, {},
                     [BaseEnv EXCEPT !.embed_ok = TRUE,
                                     !.ann = [ok |-> TRUE, docs |-> <<2, 1>>]]),
       age |-> a] :
        a \in {EmbeddingDurationHours - 1, EmbeddingDurationHours} }

Init ==
    /\ now = EmbeddingDurationHours
    /\ search_api \in ApiStates
    /\ \/ /\ result_cache = EmptyCache
          /\ embedding_cache = EmptyCache
          /\ result_cache_file = NoFile
          /\ embedding_cache_file = NoFile
       \/ \E w \in Earlier :
            LET out == SemanticSearch(search_api, w.env, EmptyState, w.query,
                                      RouteMinScore, now - w.age)
            IN /\ result_cache = out.result_cache
               /\ embedding_cache = out.embedding_cache
               /\ result_cache_file = out.result_cache_file
               /\ embedding_cache_file = out.embedding_cache_file
    /\ InitHistory

Apply(out) ==
    /\ result_cache' = out.result_cache
    /\ result_cache_file' = out.result_cache_file
    /\ embedding_cache' = out.embedding_cache
    /\ embedding_cache_file' = out.embedding_cache_file
    /\ response' = IF out.path = "raised" THEN [kind |-> "exception"] ELSE out.ret

\* history of a search operation: what it met and which way it went
Trace(op, query, limit, env, out) ==
    LET got == CacheGetValue(result_cache, ResultDurationHours, query, now)
        egot == CacheGetValue(embedding_cache, EmbeddingDurationHours, query, now)
    IN [ op |-> op, query |-> query, limit |-> limit,
         calls |-> out.calls, path |-> out.path,
         text |-> out.text, semantic |-> out.semantic,
         hit |-> Truthy(got),
         cached |-> IF Truthy(got) THEN got.value ELSE <<>>,
         lexical_failed |-> \/ ~search_api.db \/ ~env.list_ok
                            \/ ~search_api.vectorstore \/ ~env.text.ok,
         \* the semantic path failed; where it was not run (the listing of
         \* the document store raised), it counts as failing with the store
         \* unless the result cache alone would have answered it
         semantic_failed |->
             IF out.path = "error"
             THEN ~search_api.vectorstore \/ ~Truthy(got)
             ELSE out.path \in {"failed", "unavailable"},
         expansion_failed |->
             /\ search_api.vectorstore /\ ~Truthy(got)
             /\ ~(search_api.multi_query_retriever /\ env.mq.ok),
         embeds |-> out.embeds, vector |-> out.vector,
         embedding_hit |-> Truthy(egot),
         cached_vector |-> IF Truthy(egot) THEN egot.value ELSE <<>>,
         embed_ok |-> env.embed_ok,
         listed |-> search_api.db /\ env.list_ok,
         examined |-> { id \in Ids \ env.gone :
                          \E i \in 1..Len(env.text.docs) : env.text.docs[i] = id },
         fallback_ok |-> (Truthy(egot) \/ env.embed_ok) /\ env.ann.ok,
         fallback_ids |-> SelectSeq(env.ann.docs,
                                    LAMBDA id : search_api.db /\ id \notin env.gone) ]

\* HybridSearchAPI.hybrid_search(query, limit)
DoHybridSearch(query, limit) ==
    /\ response = NoResponse
    /\ \E env \in Envs(query, FALSE) :
         LET out == HybridSearch(search_api, env, State, query, limit, now)
         IN /\ Apply(out)
            /\ trace' = Trace("hybrid_search", query, limit, env, out)
    /\ UNCHANGED procVars
    /\ UNCHANGED <<now, ticks, ops, written, last, search_api>>

\* HybridSearchAPI.search_with_filters(query, max_price, min_price, limit=limit)
DoSearchWithFilters(query, max_price, min_price, limit) ==
    /\ response = NoResponse
    /\ \E env \in Envs(query, TRUE) :
         LET out == SearchWithFilters(search_api, env, State, query, max_price,
                                      min_price, limit, now)
         IN /\ Apply(out)
            /\ trace' = Trace("search_with_filters", query, limit, env, out)
                          @@ [max_price |-> max_price, min_price |-> min_price]
    /\ UNCHANGED procVars
    /\ UNCHANGED <<now, ticks, ops, written, last, search_api>>

\* HybridSearchAPI.semantic_search_advanced(query, min_score, max_results)
DoSemanticSearchAdvanced(query, min_score, max_results) ==
    /\ response = NoResponse
    /\ \E g \in GoneSets, e \in SemEnvs(query) :
         LET env == MkEnv(TRUE, Raised, g, e)
             out == SemanticSearchAdvanced(search_api, env, State, query,
                                           min_score, max_results, now)
         IN /\ Apply([out EXCEPT !.ret = [kind |-> "list", results |-> out.ret]])
            /\ trace' = Trace("semantic_search_advanced", query, max_results, env, out)
                          @@ [min_score |-> min_score]
    /\ UNCHANGED procVars
    /\ UNCHANGED <<now, ticks, ops, written, last, search_api>>

\* HybridSearchAPI.semantic_search_with_real_scores(query, min_score, max_results)
DoSemanticSearchWithRealScores(query, max_results) ==
    /\ response = NoResponse
    /\ \E g \in GoneSets, e \in SemEnvs(query) :
         LET env == MkEnv(TRUE, Raised, g, e)
             out == SemanticSearchWithRealScores(search_api, env, State, query,
                                                 AdvancedMinScore, max_results, now)
         IN /\ Apply([out EXCEPT !.ret = [kind |-> "list", results |-> out.ret]])
            /\ trace' = Trace("semantic_search_with_real_scores", query,
                              max_results, env, out)
    /\ UNCHANGED procVars
    /\ UNCHANGED <<now, ticks, ops, written, last, search_api>>

\* HybridSearchAPI.semantic_search(query, min_score=0.8), as the routes call it
DoSemanticSearch(query) ==
    /\ response = NoResponse
    /\ \E g \in GoneSets, e \in SemEnvs(query) :
         LET env == MkEnv(TRUE, Raised, g, e)
             out == SemanticSearch(search_api, env, State, query, RouteMinScore, now)
         IN /\ Apply([out EXCEPT !.ret = [kind |-> "list", results |-> out.ret]])
            /\ trace' = Trace("semantic_search", query, 0, env, out)
    /\ UNCHANGED procVars
    /\ UNCHANGED <<now, ticks, ops, written, last, search_api>>

Next ==
    \/ \E q \in SearchQueries, limit \in Limits : DoHybridSearch(q, limit)
    \/ \E q \in SearchQueries, f \in PriceFilters, limit \in Limits :
           DoSearchWithFilters(q, f[1], f[2], limit)
    \/ \E q \in SearchQueries : DoSemanticSearch(q)
    \/ \E q \in SearchQueries, min_score \in AdvancedMinScores,
          max_results \in AdvancedLimits :
           DoSemanticSearchAdvanced(q, min_score, max_results)
    \/ \E q \in SearchQueries, max_results \in AdvancedLimits :
           DoSemanticSearchWithRealScores(q, max_results)

Spec == Init /\ [][Next]_vars

(***************************************************************************)
(* Two semantic calls of one API object, one after the other, over a fixed *)
(* index and document store (a "world": the ranking of the listings and    *)
(* the listings gone from the store).  Whether the paraphraser answers is  *)
(* drawn for each call.  `trace` records the first call, `last` the second *)
(* one, a semantic_search.                                                 *)
(***************************************************************************)
EntryPoints ==
    {"semantic_search", "semantic_search_advanced",
     "semantic_search_with_real_scores"}

Worlds == [docs : DocSeqs, gone : GoneSets]

\* the min_score arguments of the two calls: the routes' and hybrid_search's
RepeatMinScores == {RouteMinScore, HybridMinScore}

RepeatQueries == { <<"v">>, <<" ", "V">> }

CallEnv(world, mq_ok) ==
    MkEnv(TRUE, Raised, world.gone,
          [BaseEnv EXCEPT !.mq = IF mq_ok THEN [ok |-> TRUE, docs |-> world.docs]
                                 ELSE Raised,
                          !.embed_ok = TRUE,
                          !.ann = [ok |-> TRUE, docs |-> world.docs]])

CallEntry(entry, env, st, query, min_score, max_results, t) ==
    CASE entry = "semantic_search" ->
             SemanticSearch(search_api, env, st, query, min_score, t)
      [] entry = "semantic_search_advanced" ->
             SemanticSearchAdvanced(search_api, env, st, query, min_score,
                                    max_results, t)
      [] OTHER ->
             SemanticSearchWithRealScores(search_api, env, st, query, min_score,
                                          max_results, t)

ApplyList(out) == Apply([out EXCEPT !.ret = [kind |-> "list", results |-> out.ret]])

FirstCall(entry, world, mq_ok, query, min_score, max_results) ==
    /\ trace = NoOp
    /\ LET record(out) ==
               /\ ApplyList(out)
               /\ trace' = [ op |-> "first", entry |-> entry, world |-> world,
                             query |-> query, min_score |-> min_score,
                             max_results |-> max_results, at |-> now,
                             path |-> out.path, calls |-> out.calls,
                             ret |-> out.ret ]
       IN record(CallEntry(entry, CallEnv(world, mq_ok), State, query, min_score,
                           max_results, now))
    /\ UNCHANGED procVars
    /\ UNCHANGED <<now, ticks, ops, written, last, search_api>>

\* the second call, and what the same call returns when no call came before
SecondCall(mq_ok, query, min_score) ==
    /\ trace.op = "first"
    /\ last = NoOp
    /\ LET record(out, alone) ==
               /\ ApplyList(out)
               /\ last' = [ op |-> "semantic_search", query |-> query,
                            min_score |-> min_score, at |-> now,
                            path |-> out.path, calls |-> out.calls,
                            ret |-> out.ret, alone |-> alone.ret,
                            before |-> result_cache,
                            file_before |-> result_cache_file ]
       IN record(SemanticSearch(search_api, CallEnv(trace.world, mq_ok), State,
                                query, min_score, now),
                 SemanticSearch(search_api, CallEnv(trace.world, mq_ok), EmptyState,
                                query, min_score, now))
    /\ UNCHANGED procVars
    /\ UNCHANGED <<now, ticks, ops, written, trace, search_api>>

NextRepeat ==
    \/ Tick
    \/ \E entry \in EntryPoints, world \in Worlds, mq_ok \in BOOLEAN,
          min_score \in RepeatMinScores, max_results \in AdvancedLimits :
           FirstCall(entry, world, mq_ok, <<"v">>, min_score, max_results)
    \/ \E mq_ok \in BOOLEAN, query \in RepeatQueries,
          min_score \in RepeatMinScores :
           SecondCall(mq_ok, query, min_score)

SpecRepeat == InitCache /\ [][NextRepeat]_vars

(***************************************************************************)
(* The expanded retrieval on its own: what semantic_search and             *)
(* semantic_search_advanced make of the documents of the                   *)
(* MultiQueryRetriever (every listing resolves).  `last` records the call. *)
(***************************************************************************)
ExpandEnv == MkEnv(TRUE, Raised, {}, BaseEnv)

\* the min_score arguments semantic_search is called with
MinScores == {FilterMinScore, HybridMinScore, RouteMinScore}

\* the retriever's documents by listing id: two documents of the index can
\* carry the same id, which is why both operations deduplicate by id
RetrieverOutputs == UNION {[1..n -> Ids] : n \in 0..MaxRetrieved}

\* what one vector retrieval returns for one variant: each document once
VariantLists ==
    { d \in UNION {[1..n -> Ids] : n \in 0..MaxDocs} :
        \A i, j \in 1..Len(d) : i # j => d[i] # d[j] }

\* MultiQueryRetriever.get_relevant_documents: the documents retrieved for
\* the generated variants, one variant after the other, repetitions removed
MultiQueryRetrieve(variants) == Unique(variants[1] \o variants[2])

\* semantic_search: from the retriever's documents to the sorted list
SemanticList(multi_query_results, min_score) ==
    SortByScoreDesc(FormatFrom(FullApi, ExpandEnv, Unique(multi_query_results),
                               0, 5, min_score, <<"semantic_multi_query">>))

\* semantic_search_advanced: from the retriever's documents to the sorted,
\* truncated list
AdvancedList(multi_query_results, min_score, max_results) ==
    Slice(SortByScoreDesc(
              FormatAdvanced(FullApi, ExpandEnv, multi_query_results, 0,
                             Len(multi_query_results), {}, min_score)),
          max_results)

DoFormat(docs, min_score) ==
    /\ last' = [ op |-> "format", docs |-> docs, min_score |-> min_score,
                 semantic |-> SemanticList(docs, min_score),
                 advanced |-> AdvancedList(docs, min_score, AdvancedMaxResults) ]
    /\ UNCHANGED procVars
    /\ UNCHANGED <<now, ticks, ops, embedding_cache, result_cache,
                   embedding_cache_file, result_cache_file, written,
                   search_api, response, trace>>

DoExpand(variants, min_score) ==
    /\ last' = [ op |-> "expand", variants |-> variants, min_score |-> min_score,
                 merged |-> MultiQueryRetrieve(variants),
                 semantic |-> SemanticList(MultiQueryRetrieve(variants), min_score) ]
    /\ UNCHANGED procVars
    /\ UNCHANGED <<now, ticks, ops, embedding_cache, result_cache,
                   embedding_cache_file, result_cache_file, written,
                   search_api, response, trace>>

NextExpand ==
    \/ \E docs \in RetrieverOutputs, min_score \in MinScores :
           DoFormat(docs, min_score)
    \/ \E v1 \in VariantLists, v2 \in VariantLists, min_score \in MinScores :
           DoExpand(<<v1, v2>>, min_score)

SpecExpand == InitCache /\ [][NextExpand]_vars

(***************************************************************************)
(* The search routes of the two HTTP applications.  A route validates the  *)
(* query inside its try block, then makes its retrieval call; the except   *)
(* clauses of the route decide the status of the answer.  `last` records   *)
(* the request and its answer.                                             *)
(***************************************************************************)
SearchRoutes ==
    { [app |-> "api", path |-> "/search/keyword",
       retrieval |-> "list_documents", reraises |-> TRUE],
      [app |-> "api", path |-> "/search/semantic",
       retrieval |-> "semantic_search", reraises |-> TRUE],
      [app |-> "api", path |-> "/search/semantic/advanced",
       retrieval |-> "semantic_search_advanced", reraises |-> TRUE],
      [app |-> "api", path |-> "/search/filtered",
       retrieval |-> "search_with_price_filter", reraises |-> TRUE],
      [app |-> "api", path |-> "/search/semantic/real-scores",
       retrieval |-> "semantic_search_with_real_scores", reraises |-> TRUE],
      [app |-> "api", path |-> "/search/category",
       retrieval |-> "list_documents", reraises |-> TRUE],
      [app |-> "api_local_real", path |-> "/search",
       retrieval |-> "hybrid_search", reraises |-> FALSE],
      [app |-> "api_local_real", path |-> "/search/fast",
       retrieval |-> "similarity_search_with_score", reraises |-> FALSE] }

RouteQueries == SearchQueries \cup { <<>>, <<" ">>, <<" ", " ">> }

\* the retrieval call of a route returns or raises
RetrievalOutcomes == {"returns", "raises"}

\* the body of the try block: what it raises (if anything) and the retrieval
\* calls made before.  get_search_api of api_local_real can yield None.
RouteBody(route, query, has_api, outcome) ==
    IF Strip(query) = <<>>
    THEN [raised |-> "HTTPException", status |-> 400, calls |-> <<>>]
    ELSE IF route.app = "api_local_real" /\ ~has_api
    THEN IF route.path = "/search"
         THEN [raised |-> "none", status |-> 200, calls |-> <<>>]
         ELSE [raised |-> "HTTPException", status |-> 500, calls |-> <<>>]
    ELSE IF outcome = "raises"
    THEN [raised |-> "Exception", status |-> 500, calls |-> <<route.retrieval>>]
    ELSE [raised |-> "none", status |-> 200, calls |-> <<route.retrieval>>]

\* the except clauses: `except HTTPException: raise` where the route has it,
\* then `except Exception` answering 500 (HTTPException is an Exception)
RouteStatus(route, body) ==
    IF body.raised = "none" THEN body.status
    ELSE IF body.raised = "HTTPException" /\ route.reraises THEN body.status
    ELSE 500

DoRoute(route, query, has_api, outcome) ==
    /\ last' = [ op |-> "route", route |-> route, query |-> query,
                 has_api |-> has_api, outcome |-> outcome,
                 status |-> RouteStatus(route,
                                RouteBody(route, query, has_api, outcome)),
                 calls |-> RouteBody(route, query, has_api, outcome).calls ]
    /\ UNCHANGED procVars
    /\ UNCHANGED <<now, ticks, ops, embedding_cache, result_cache,
                   embedding_cache_file, result_cache_file, written,
                   search_api, response, trace>>

NextRoutes ==
    \E route \in SearchRoutes, query \in RouteQueries, has_api \in BOOLEAN,
       outcome \in RetrievalOutcomes :
        (route.app = "api" => has_api) /\ DoRoute(route, query, has_api, outcome)

SpecRoutes == InitCache /\ [][NextRoutes]_vars

(***************************************************************************)
(* Two ResultCache objects over one result_cache.json.  Each object is     *)
(* used by the single-threaded event loop of its process, so one set() at  *)
(* a time runs on an object; the steps of set() on different objects       *)
(* interleave.  No lock is taken anywhere.                                 *)
(***************************************************************************)
WriterQueries == { <<"v">>, <<"b">> }

WriterResults == <<"x">>

OtherVars ==
    <<now, ticks, ops, embedding_cache, result_cache, embedding_cache_file,
      written, last, search_api, response, trace, index, request, pagination>>

\* an object between open(self.cache_file, 'w') and the end of json.dump
Writing(o) == cache_objects[o].pc = "opened"

\* ResultCache.__init__: self.cache = self._load_cache()
Construct(o) ==
    /\ cache_objects[o].pc = "none"
    /\ cache_objects' =
          [cache_objects EXCEPT ![o] =
              [pc |-> "idle",
               cache |-> LoadCache(result_cache_file, ResultDurationHours, now),
               done |-> {}]]
    /\ UNCHANGED <<result_cache_file, OtherVars>>

\* set: self.cache[query_lower] = {...}
SetEntry(o, query, results) ==
    /\ cache_objects[o].pc = "idle"
    /\ Cardinality(cache_objects[o].done) < MaxSets
    /\ Normalize(query) \notin cache_objects[o].done
    /\ cache_objects' =
          [cache_objects EXCEPT ![o] =
              [pc |-> "assigned",
               cache |-> CacheAfterSet(@.cache, query, results, now),
               done |-> @.done,
               key |-> Normalize(query)]]
    /\ UNCHANGED <<result_cache_file, OtherVars>>

\* _save_cache: open(self.cache_file, 'w') truncates the file
OpenForWrite(o) ==
    /\ cache_objects[o].pc = "assigned"
    /\ cache_objects' = [cache_objects EXCEPT ![o].pc = "opened"]
    /\ result_cache_file' = CorruptFile
    /\ UNCHANGED OtherVars

\* _save_cache: json.dump(self.cache, f) and the close of the file.  The
\* object's whole map replaces the content; when another object has the
\* file open for writing too, the two dumps can also mix into a file that
\* does not parse.
Dump(o) ==
    /\ cache_objects[o].pc = "opened"
    /\ cache_objects' =
          [cache_objects EXCEPT ![o] =
              [pc |-> "idle", cache |-> @.cache,
               done |-> @.done \cup {@.key}]]
    /\ \/ result_cache_file' = SaveCache(cache_objects[o].cache, result_cache_file, "ok")
       \/ /\ \E p \in CacheObjects \ {o} : Writing(p)
          /\ result_cache_file' = CorruptFile
    /\ UNCHANGED OtherVars

NextWriters ==
    \E o \in CacheObjects :
        \/ Construct(o)
        \/ \E query \in WriterQueries : SetEntry(o, query, WriterResults)
        \/ OpenForWrite(o)
        \/ Dump(o)

SpecWriters == InitCache /\ [][NextWriters]_vars

(***************************************************************************)
(* update_index and rebuild_index over the index directory, and a process  *)
(* loading the index (_load_components) at any point of the run.           *)
(* index.dir is what the directory holds: "complete" (index.faiss and      *)
(* index.pkl of one build), "missing" (no directory) or "partial" (the     *)
(* directory with index.faiss only).                                       *)
(***************************************************************************)
IndexOps == {"update_index", "rebuild_index", "add_new_announcements"}

\* the listings of the document store during the runs
Store == Ids

NonIndexVars ==
    <<now, ticks, ops, embedding_cache, result_cache, embedding_cache_file,
      result_cache_file, written, last, search_api, response, trace,
      cache_objects, request, pagination>>

\* load_indexed_ids: the ids of indexed_ids.json, the empty set without file
LoadIndexedIds == IF index.ids_file THEN index.indexed_ids ELSE {}

\* the route /admin/rebuild-index calls update_index; rebuild_index and
\* add_new_announcements are script entries.  update_index pages the store
\* first, rebuild_index removes the index first, add_new_announcements
\* loads the indexed ids and pages the store.
StartIndexRun(op) ==
    /\ index.pc \in {"idle", "done"}
    /\ index.runs < MaxRuns
    /\ index' = [index EXCEPT !.pc = IF op = "rebuild_index" THEN "removing"
                                     ELSE "listing",
                              !.op = op, !.result = "none",
                              !.runs = @ + 1,
                              !.known = LoadIndexedIds,
                              !.listed = {}, !.new_ids = {}, !.staged = NoDocs,
                              !.before = [dir |-> index.dir,
                                          ids_file |-> index.ids_file]]
    /\ UNCHANGED NonIndexVars

\* the pagination of the document store.  update_index and
\* add_new_announcements return success False on an error, before touching
\* the index; rebuild_index breaks out of the loop and goes on with the
\* pages it has.  add_new_announcements returns when no listing is new and
\* hands over to update_index when there is no index directory.
ListStore(ok) ==
    /\ index.pc = "listing"
    /\ index' =
         CASE index.op = "rebuild_index" ->
                 [index EXCEPT !.pc = "building",
                               !.listed = IF ok THEN Store ELSE {}]
           [] index.op = "update_index" ->
                 IF ok THEN [index EXCEPT !.pc = "removing", !.listed = Store]
                 ELSE [index EXCEPT !.pc = "done", !.result = "failed"]
           [] OTHER ->
                 IF ~ok THEN [index EXCEPT !.pc = "done", !.result = "failed"]
                 ELSE IF Store \ index.known = {}
                 THEN [index EXCEPT !.pc = "done", !.result = "ok",
                                    !.listed = Store]
                 ELSE IF index.dir = "missing"
                 THEN [index EXCEPT !.op = "update_index", !.pc = "listing"]
                 ELSE [index EXCEPT !.pc = "loading", !.listed = Store,
                                    !.new_ids = Store \ index.known]
    /\ UNCHANGED NonIndexVars

\* shutil.rmtree(INDEX_DIR); os.remove(INDEXED_IDS_FILE)
RemoveIndex ==
    /\ index.pc = "removing"
    /\ index' = [index EXCEPT !.dir = "missing", !.ids_file = FALSE,
                              !.docs = NoDocs, !.indexed_ids = {},
                              !.pc = IF index.op = "update_index"
                                     THEN "building" ELSE "listing"]
    /\ UNCHANGED NonIndexVars

\* FAISS.from_documents(docs, embeddings), one document per listing; it
\* raises on an empty list.  An error ends update_index with success False
\* and leaves rebuild_index by the exception.
BuildIndex(ok) ==
    /\ index.pc = "building"
    /\ index' = IF ok /\ index.listed # {}
                THEN [index EXCEPT !.pc = "saving",
                                   !.staged = DocsOf(index.listed)]
                ELSE [index EXCEPT !.pc = "done", !.result = "failed"]
    /\ UNCHANGED NonIndexVars

\* add_new_announcements: FAISS.load_local(INDEX_DIR, ...) of the existing
\* index; a directory without index.pkl makes it raise
LoadForAdd ==
    /\ index.pc = "loading"
    /\ index' = IF index.dir = "complete"
                THEN [index EXCEPT !.pc = "adding", !.staged = index.docs]
                ELSE [index EXCEPT !.pc = "done", !.result = "failed"]
    /\ UNCHANGED NonIndexVars

\* add_new_announcements: vectorstore.add_documents(new_docs)
AddDocuments(ok) ==
    /\ index.pc = "adding"
    /\ index' = IF ok
                THEN [index EXCEPT
                        !.pc = "saving",
                        !.staged = [id \in Ids |->
                                       index.staged[id]
                                       + (IF id \in index.new_ids THEN 1 ELSE 0)]]
                ELSE [index EXCEPT !.pc = "done", !.result = "failed"]
    /\ UNCHANGED NonIndexVars

\* vectorstore.save_local(INDEX_DIR): the directory is made and index.faiss
\* is written
SaveFaiss ==
    /\ index.pc = "saving"
    /\ index' = [index EXCEPT !.dir = "partial", !.pc = "saving_pkl"]
    /\ UNCHANGED NonIndexVars

\* save_local: index.pkl is written; update_index and add_new_announcements
\* then save the indexed ids, rebuild_index does not
SavePkl ==
    /\ index.pc = "saving_pkl"
    /\ index' = [index EXCEPT
                    !.dir = "complete", !.docs = index.staged,
                    !.ids_file = (index.op # "rebuild_index"),
                    !.indexed_ids =
                        CASE index.op = "update_index" -> index.listed
                          [] index.op = "add_new_announcements" ->
                                 index.known \cup index.new_ids
                          [] OTHER -> {},
                    !.pc = "done", !.result = "ok"]
    /\ UNCHANGED NonIndexVars

\* _load_components of a process starting or reloading at this point: no
\* directory raises FileNotFoundError, a directory without index.pkl makes
\* FAISS.load_local raise; both leave the object without vectorstore
LoadIndex ==
    /\ index' = [index EXCEPT !.loaded = index.dir]
    /\ index'.loaded # index.loaded
    /\ UNCHANGED NonIndexVars

NextIndex ==
    \/ \E op \in IndexOps : StartIndexRun(op)
    \/ \E ok \in BOOLEAN : ListStore(ok)
    \/ RemoveIndex
    \/ \E ok \in BOOLEAN : BuildIndex(ok)
    \/ LoadForAdd
    \/ \E ok \in BOOLEAN : AddDocuments(ok)
    \/ SaveFaiss
    \/ SavePkl
    \/ LoadIndex

SpecIndex == InitCache /\ [][NextIndex]_vars

(***************************************************************************)
(* One hybrid_search request and the external services it calls, one       *)
(* blocking call after the other (every component loaded).                 *)
(* request.pc names the call the request is blocked in.  No call is given  *)
(* a timeout, so the only way out of a call is the service's answer.       *)
(***************************************************************************)
Services == {"document_store", "embedding_provider", "llm"}

\* a service answers, answers with an error, or never answers
ServiceStates == {"up", "failing", "silent"}

ExternalCalls ==
    {"list_documents", "text_embed", "text_details", "paraphrase",
     "variant_embed", "semantic_details", "fallback_embed", "fallback_details"}

ServiceOf(call) ==
    CASE call \in {"list_documents", "text_details", "semantic_details",
                   "fallback_details"} -> "document_store"
      [] call = "paraphrase" -> "llm"
      [] OTHER -> "embedding_provider"

\* semantic_search returns the cached results of the query, if any, without
\* a call
SemanticEntry(cached) == IF cached.result THEN "returned" ELSE "paraphrase"

\* _semantic_search_fallback embeds the query unless its embedding is cached
FallbackEntry(cached) ==
    IF cached.embedding THEN "fallback_details" ELSE "fallback_embed"

\* where the request goes when the call returns
AfterAnswer(call, cached) ==
    CASE call = "list_documents" -> "text_embed"
      [] call = "text_embed" -> "text_details"
      [] call = "text_details" -> SemanticEntry(cached)
      [] call = "paraphrase" -> "variant_embed"
      [] call = "variant_embed" -> "semantic_details"
      [] call = "fallback_embed" -> "fallback_details"
      [] OTHER -> "returned"

\* where the request goes when the call raises: the pagination error ends
\* the request with the error result, text_search gives up, the expanded
\* retrieval falls back, the fallback's error gives no semantic results,
\* _get_announcement_details returns None
AfterError(call, cached) ==
    CASE call = "list_documents" -> "returned"
      [] call = "text_embed" -> SemanticEntry(cached)
      [] call = "text_details" -> SemanticEntry(cached)
      [] call \in {"paraphrase", "variant_embed"} -> FallbackEntry(cached)
      [] OTHER -> "returned"

NonRequestVars ==
    <<now, ticks, ops, embedding_cache, result_cache, embedding_cache_file,
      result_cache_file, written, last, search_api, response, trace,
      cache_objects, index, pagination>>

\* hybrid_search is entered; its first statement of effect is the first
\* db.list_documents call
StartRequest(services, cached) ==
    /\ request.pc = "idle"
    /\ request' = [pc |-> "list_documents", services |-> services,
                   cached |-> cached, result |-> "none"]
    /\ UNCHANGED NonRequestVars

\* the service answers the pending call
AnswerCall ==
    /\ request.pc \in ExternalCalls
    /\ request.services[ServiceOf(request.pc)] = "up"
    /\ request' = [request EXCEPT
                      !.pc = AfterAnswer(request.pc, request.cached),
                      !.result = IF AfterAnswer(request.pc, request.cached) = "returned"
                                 THEN "response" ELSE @]
    /\ UNCHANGED NonRequestVars

\* the pending call raises
FailCall ==
    /\ request.pc \in ExternalCalls
    /\ request.services[ServiceOf(request.pc)] = "failing"
    /\ request' = [request EXCEPT
                      !.pc = AfterError(request.pc, request.cached),
                      !.result = IF AfterError(request.pc, request.cached) # "returned"
                                 THEN @
                                 ELSE IF request.pc = "list_documents"
                                      THEN "error" ELSE "response"]
    /\ UNCHANGED NonRequestVars

NextRequest ==
    \/ \E services \in [Services -> ServiceStates],
          cached \in [result : BOOLEAN, embedding : BOOLEAN] :
           StartRequest(services, cached)
    \/ AnswerCall
    \/ FailCall

\* the process runs and a service that answers does so eventually
SpecRequest == InitCache /\ [][NextRequest]_vars /\ WF_vars(NextRequest)

(***************************************************************************)
(* The paginated retrieval of the document store, one list_documents call  *)
(* after the other.  The same loop stands in hybrid_search, in             *)
(* update_index and in generate_index_paginated.main; the three differ in  *)
(* what the except clause does when a call raises.  The store holds the    *)
(* listings 1..n and does not change during the retrieval.                 *)
(***************************************************************************)
PaginationLoops == {"hybrid_search", "update_index", "generate_index_paginated"}

StoreOf(n) == [i \in 1..n |-> i]

\* db.list_documents with Query.limit(limit) and Query.offset(offset)
ListDocuments(store, limit, offset) ==
    SubSeq(store, offset + 1, Min(Len(store), offset + limit))

\* a slip: a full page is taken for the last one
LastPageOrFull(announcements, limit) == Len(announcements) <= limit

\* `if len(announcements) < page_limit: break`
LastPage(announcements, limit) == Len(announcements) < limit

NonPaginationVars ==
    <<now, ticks, ops, embedding_cache, result_cache, embedding_cache_file,
      result_cache_file, written, last, search_api, response, trace,
      cache_objects, index, request>>

\* all_announcements = [], offset = 0, and the loop is entered
StartPagination(loop, n) ==
    /\ pagination.pc = "idle"
    /\ pagination' = [pc |-> "list_documents", loop |-> loop, store |-> StoreOf(n),
                      offset |-> 0, all_announcements |-> <<>>, calls |-> 0,
                      raised |-> FALSE, result |-> "none"]
    /\ UNCHANGED NonPaginationVars

\* the store answers the pending call: one turn of the loop
AnswerPage ==
    /\ pagination.pc = "list_documents"
    /\ LET announcements ==
               ListDocuments(pagination.store, PageLimit, pagination.offset)
       IN pagination' =
             IF Len(announcements) = 0
             THEN [pagination EXCEPT !.pc = "done", !.calls = @ + 1,
                                     !.result = "collected"]
             ELSE [pagination EXCEPT
                      !.all_announcements = @ \o announcements,
                      !.offset = @ + PageLimit,
                      !.calls = @ + 1,
                      !.pc = IF LastPage(announcements, PageLimit)
                             THEN "done" ELSE @,
                      !.result = IF LastPage(announcements, PageLimit)
                                 THEN "collected" ELSE @]
    /\ UNCHANGED NonPaginationVars

\* the pending call raises: hybrid_search returns {"error": ...} and
\* update_index {"success": False, ...}; generate_index_paginated breaks out
\* of the loop and goes on with what was collected
FailPage ==
    /\ pagination.pc = "list_documents"
    /\ pagination' =
          [pagination EXCEPT
              !.pc = "done", !.calls = @ + 1, !.raised = TRUE,
              !.result = IF pagination.loop = "generate_index_paginated"
                         THEN "collected" ELSE "error"]
    /\ UNCHANGED NonPaginationVars

NextPagination ==
    \/ \E loop \in PaginationLoops, n \in 0..MaxStoreSize : StartPagination(loop, n)
    \/ AnswerPage
    \/ FailPage

\* the process runs and every list_documents call returns or raises
SpecPagination == InitCache /\ [][NextPagination]_vars /\ WF_vars(NextPagination)

(***************************************************************************)
(* The claims.                                                             *)
(***************************************************************************)
NoRepeatedId(results) ==
    \A i, j \in 1..Len(results) : i # j => results[i].id # results[j].id

NonIncreasing(results) ==
    \A i \in 1..(Len(results) - 1) : results[i].score >= results[i + 1].score

\* the last write recorded for the query of the last get, if any
LastWritten == written[last.cache][TrimFold(last.query)]
LastWasWritten == TrimFold(last.query) \in DOMAIN written[last.cache]

\* C1: in both caches, a get under q2 after a set under q1, where q1 and q2
\* are equal once trimmed and case-folded, finds the entry and returns the
\* value stored under q1; and any two such queries get the same answer.
C1_SameKeySameEntry ==
    /\ (last.op = "get" /\ LastWasWritten
            /\ last.at - LastWritten.timestamp < Duration(last.cache))
       => (last.got.found /\ last.got.value = LastWritten.value)
    /\ \A c \in CacheNames : \A q1, q2 \in Queries :
          TrimFold(q1) = TrimFold(q2)
          => CacheGetValue(CacheOf(c), Duration(c), q1, now)
             = CacheGetValue(CacheOf(c), Duration(c), q2, now)

C1_Witness ==
    /\ last.op = "get" /\ LastWasWritten
    /\ LastWritten.query # last.query
    /\ Lower(LastWritten.query) # Lower(last.query)
    /\ last.got.found /\ last.got.value = LastWritten.value

\* C2: in each cache, an entry written at time T is returned by a get at time
\* t when t - T < ttl and reported absent when t - T >= ttl.
C2_TtlBoundary ==
    (last.op = "get" /\ LastWasWritten)
    => IF last.at - LastWritten.timestamp < Duration(last.cache)
       THEN last.got.found /\ last.got.value = LastWritten.value
       ELSE ~last.got.found

C2_Witness ==
    /\ last.op = "get" /\ LastWasWritten
    /\ last.cache = "embedding"
    /\ last.at - LastWritten.timestamp = Duration(last.cache)
    /\ ~last.got.found

IsHybrid == trace.op = "hybrid_search"
IsHybridResponse == IsHybrid /\ response.kind = "response"

\* C3: when the result cache holds a non-expired entry for the query,
\* hybrid_search calls no collaborator (embedding provider, ANN index,
\* paraphraser, document store) and returns the cached results unchanged.
C3_CacheHitNoRetrieval ==
    (IsHybrid /\ trace.hit)
    => /\ trace.calls = {}
       /\ response.kind = "response"
       /\ response.results = trace.cached

\* C4: the list returned by hybrid_search and by search_with_filters holds
\* no listing id twice, whatever repetitions the candidate lists hold.
C4_NoDuplicateIds ==
    (trace.op \in {"hybrid_search", "search_with_filters"}
        /\ response.kind \in {"response", "list"})
    => NoRepeatedId(response.results)

C4_Witness ==
    /\ IsHybridResponse
    /\ ~NoRepeatedId(trace.text)
    /\ ~NoRepeatedId(trace.semantic)
    /\ IdSet(trace.text) \cap IdSet(trace.semantic) # {}
    /\ Len(response.results) >= 1
    /\ Len(response.results) < Len(trace.text) + Len(trace.semantic)

\* C5: an id found by both the lexical and the semantic matching is
\* returned by hybrid_search with the lexical match type and score 1.0.
C5_LexicalWins ==
    IsHybridResponse
    => \A i \in 1..Len(response.results) :
          response.results[i].id \in IdSet(trace.text) \cap IdSet(trace.semantic)
          => /\ response.results[i].match_type = <<"text">>
             /\ response.results[i].score = 100

C5_Witness ==
    /\ IsHybridResponse
    /\ \E i \in 1..Len(response.results) :
          response.results[i].id \in IdSet(trace.text) \cap IdSet(trace.semantic)
    /\ \E i \in 1..Len(trace.semantic) :
          /\ trace.semantic[i].id \in IdSet(trace.text)
          /\ trace.semantic[i].match_type # <<"text">>

\* C6, as stated: every response of hybrid_search(query, limit) has at most
\* limit results, with non-increasing scores.
C6_BoundedAndOrdered ==
    IsHybridResponse
    => /\ Len(response.results) <= trace.limit
       /\ NonIncreasing(response.results)

\* C6, amended: every response of hybrid_search(query, limit) with limit >= 0
\* has at most limit results, with non-increasing scores.
C6_BoundedAndOrderedFromZero ==
    (IsHybridResponse /\ trace.limit >= 0)
    => /\ Len(response.results) <= trace.limit
       /\ NonIncreasing(response.results)

C6_Witness ==
    /\ IsHybridResponse
    /\ trace.limit = 1
    /\ Cardinality(IdSet(trace.text) \cup IdSet(trace.semantic)) >= 2
    /\ Len(response.results) = 1

\* the deduplicated candidates of a response and the score each carries
Candidates == IdSet(trace.text) \cup IdSet(trace.semantic)

CandidateScore(id) ==
    IF id \in IdSet(trace.text) THEN 100
    ELSE LET i == CHOOSE i \in 1..Len(trace.semantic) :
                     /\ trace.semantic[i].id = id
                     /\ \A j \in 1..(i - 1) : trace.semantic[j].id # id
         IN trace.semantic[i].score

TopCandidates(limit) ==
    /\ Len(response.results) = Min(Cardinality(Candidates), limit)
    /\ IdSet(response.results) \subseteq Candidates
    /\ \A i \in 1..Len(response.results) :
          response.results[i].score = CandidateScore(response.results[i].id)
    /\ \A id \in Candidates \ IdSet(response.results) :
          \A i \in 1..Len(response.results) :
              CandidateScore(id) <= response.results[i].score

\* C7, as stated: with n deduplicated candidates, hybrid_search(query, limit)
\* returns exactly min(n, limit) results, the highest-scoring ones.
C7_TopResults == IsHybridResponse => TopCandidates(trace.limit)

\* C7, amended: the same for limit >= 0.
C7_TopResultsFromZero ==
    (IsHybridResponse /\ trace.limit >= 0) => TopCandidates(trace.limit)

C7_Witness ==
    /\ IsHybridResponse
    /\ trace.limit = 1
    /\ Len(response.results) = 1
    /\ \E id \in Candidates \ IdSet(response.results) :
          CandidateScore(id) < response.results[1].score

C9_HardFailureOnlyIfBothFail ==
    IsHybrid
    => /\ response.kind = "error"
          => (trace.lexical_failed /\ trace.semantic_failed)
       /\ (trace.lexical_failed /\ ~trace.semantic_failed)
          => (response.kind = "response" /\ response.text_results = 0)
       /\ (~trace.lexical_failed /\ trace.semantic_failed)
          => (response.kind = "response" /\ response.semantic_results = 0)

\* C10: when both the lexical and the semantic path fail, hybrid_search
\* returns an error result, never a response with empty results.
C10_TotalFailureIsError ==
    (IsHybrid /\ trace.lexical_failed /\ trace.semantic_failed)
    => response.kind = "error"

\* C13: every score of _calculate_similarity_score(distance, rank, max_rank)
\* with distance >= 0 and 0 <= rank < max_rank lies in [0.5, 1.0], and none
\* exceeds the score of distance 0 at rank 0.
C13_ScoreRange ==
    last.op = "score"
    => /\ 50 <= last.score /\ last.score <= 100
       /\ \A m \in 1..MaxRank :
             last.score <= CalculateSimilarityScore(0, 0, m)

C13_Witness ==
    /\ last.op = "score"
    /\ last.distance > 100
    /\ last.position = last.max_position - 1
    /\ last.position > 0
    /\ last.score < CalculateSimilarityScore(0, 0, last.max_position)
    /\ last.score < 60

\* the number of entries of a list that carry the id
CountId(id, results) == Cardinality({i \in 1..Len(results) : results[i].id = id})

OnlyReorders(limit) ==
    /\ Len(last.results) <= limit
       => \A id \in Ids : CountId(id, last.out) = CountId(id, last.results)
    /\ Len(last.results) > limit
       => /\ Len(last.out) = limit
          /\ \A id \in Ids : CountId(id, last.out) <= CountId(id, last.results)

\* C12, as stated: rerank(query, results, limit) returns exactly the ids of
\* the input when len(results) <= limit, and exactly limit entries, all of
\* the input, when len(results) > limit.
C12_OnlyReorders == last.op = "rerank" => OnlyReorders(last.limit)

\* C12, amended: the same for limit >= 0.
C12_OnlyReordersFromZero ==
    (last.op = "rerank" /\ last.limit >= 0) => OnlyReorders(last.limit)

C12_Witness ==
    /\ last.op = "rerank"
    /\ last.limit = 1
    /\ Len(last.results) = 2
    /\ Len(last.out) = 1
    /\ last.out[1].id = last.results[2].id
    /\ last.out[1].id # last.results[1].id
    /\ last.out[1].score # last.results[2].score

FileOf(c) == IF c = "embedding" THEN embedding_cache_file ELSE result_cache_file

\* what a cache that started empty answers to the last get
FreshAnswer ==
    IF LastWasWritten /\ last.at - LastWritten.timestamp < Duration(last.cache)
    THEN [found |-> TRUE, value |-> LastWritten.value]
    ELSE NotFound

\* C17: a cache constructed over an unreadable file is empty, and get and
\* set on it behave as on a fresh cache: it holds nothing but what was set
\* since, a get answers from those sets alone, a set stores its entry.
C17_CorruptFileGivesEmptyCache ==
    \A c \in CacheNames :
        (trace.op = "construct" /\ trace.files[c] = CorruptFile)
        => /\ ops = 0 => CacheOf(c) = EmptyCache
           /\ DOMAIN CacheOf(c) \subseteq DOMAIN written[c]
           /\ (last.op = "get" /\ last.cache = c) => last.got = FreshAnswer
           /\ (last.op = "set" /\ last.cache = c)
              => /\ Normalize(last.query) \in DOMAIN CacheOf(c)
                 /\ CacheOf(c)[Normalize(last.query)]
                    = [value |-> last.value, timestamp |-> last.at]

C17_Witness ==
    /\ trace.op = "construct"
    /\ trace.files["result"] = CorruptFile
    /\ last.op = "get" /\ last.cache = "result"
    /\ last.got.found
    /\ result_cache_file # CorruptFile

C19_GetIsPureRead ==
    [][(ops' = ops + 1 /\ last'.op = "get")
       => UNCHANGED <<embedding_cache, result_cache,
                      embedding_cache_file, result_cache_file>>]_vars

\* the last operation resolved a query vector: it reached the vector
\* retriever (no answer of the result cache, no expansion)
VectorResolved ==
    \/ /\ trace.op \in {"semantic_search", "semantic_search_advanced"}
       /\ trace.expansion_failed
    \/ /\ trace.op = "semantic_search_with_real_scores"
       /\ search_api.vectorstore /\ ~trace.hit
    \/ /\ trace.op = "hybrid_search"
       /\ trace.expansion_failed /\ trace.path # "error"

\* C20: when the vector retriever resolves a query vector, on a miss of the
\* embedding cache the provider is called exactly once and the vector it
\* returns is in the embedding cache under the normalized key; on a hit the
\* provider is not called and the ANN query is issued with the cached vector.
C20_VectorResolution ==
    VectorResolved
    => IF trace.embedding_hit
       THEN /\ trace.embeds = 0
            /\ "ann" \in trace.calls
            /\ trace.vector = trace.cached_vector
       ELSE /\ trace.embeds = 1
            /\ trace.embed_ok
               => /\ trace.vector = Embed(trace.query)
                  /\ Normalize(trace.query) \in DOMAIN embedding_cache
                  /\ embedding_cache[Normalize(trace.query)]
                     = [value |-> Embed(trace.query), timestamp |-> now]

C20_Witness ==
    /\ trace.op = "semantic_search_with_real_scores"
    /\ VectorResolved
    /\ trace.query = <<" ", "V">>
    /\ trace.embedding_hit
    /\ trace.embeds = 0
    /\ trace.vector = Embed(<<"v">>)
    /\ response.kind = "list" /\ Len(response.results) >= 1

C20_WitnessMiss ==
    /\ trace.op = "semantic_search"
    /\ VectorResolved
    /\ trace.query = <<" ", "V">>
    /\ ~trace.embedding_hit
    /\ trace.embeds = 1
    /\ <<"v">> \in DOMAIN embedding_cache
    /\ embedding_cache[<<"v">>].value = Embed(<<" ", "V">>)

PublicOperations ==
    { "hybrid_search", "semantic_search", "semantic_search_advanced",
      "semantic_search_with_real_scores", "search_with_filters" }

ScoreModelValues ==
    { CalculateSimilarityScore(d, p, m) :
        d \in Distances, p \in 0..(MaxRank - 1), m \in 1..MaxRank }

SemanticOperations ==
    { "semantic_search", "semantic_search_advanced",
      "semantic_search_with_real_scores", "search_with_filters" }

\* C14: every path that produces semantic scores computes them with
\* _calculate_similarity_score: without the reranker, each score of the
\* semantic list of semantic_search, of its fallback, of
\* semantic_search_advanced, of its fallback, of
\* semantic_search_with_real_scores and of the price-filtered search is a
\* value of that formula.
C14_SingleScoreModel ==
    (trace.op \in SemanticOperations /\ ~search_api.reranker
        /\ response.kind = "list")
    => \A i \in 1..Len(trace.semantic) :
          trace.semantic[i].score \in ScoreModelValues

IsFiltered == trace.op = "search_with_filters" /\ response.kind = "list"

\* the fused candidates that the price bounds admit
Eligible ==
    { id \in Candidates :
        /\ \A m \in trace.max_price : Listing(id).price <= m
        /\ \A m \in trace.min_price : Listing(id).price >= m }

Matching(query) ==
    { id \in Ids : IsSubstr(Lower(query), Lower(PageContent(id))) }

ReturnedAsLexical(id) ==
    \E i \in 1..Len(response.results) :
        /\ response.results[i].id = id
        /\ response.results[i].match_type = <<"text">>
        /\ response.results[i].score = 100

\* the listings the lexical matching examined: those among the documents
\* the index returned for the query whose details the store resolves
Examined == trace.examined

RerankOutputShape(limit) ==
    /\ \A i \in 1..Len(last.out) :
          50 <= last.out[i].score /\ last.out[i].score <= 100
    /\ NonIncreasing(last.out)
    /\ Len(last.out) <= limit

\* C28, as stated: the output of rerank(query, results, limit) has every
\* score in [0.5, 1.0], is sorted by non-increasing score and has at most
\* limit entries, whatever the input list and its scores.
C28_RerankOutput == last.op = "rerank" => RerankOutputShape(last.limit)

\* C28, amended: the same for limit >= 0.
C28_RerankOutputFromZero ==
    (last.op = "rerank" /\ last.limit >= 0) => RerankOutputShape(last.limit)

C28_Witness ==
    /\ last.op = "rerank"
    /\ last.limit = 1
    /\ Len(last.results) = 2
    /\ last.results[1].score = 0
    /\ last.results[2].score = 150
    /\ Len(last.out) = 1
    /\ last.out[1].original_score = 150
    /\ last.out[1].score = 100

IsAdvanced == trace.op = "semantic_search_advanced" /\ response.kind = "list"

\* C29: semantic_search_advanced(query, min_score, max_results) returns at
\* most max_results results, each with score >= min_score, on a hit of the
\* result cache and on a miss, reranking included.
C29_BoundedAndAboveMinScore ==
    IsAdvanced
    => /\ Len(response.results) <= trace.limit
       /\ \A i \in 1..Len(response.results) :
             response.results[i].score >= trace.min_score

\* the last operation stored an entry for its query in the result cache
StoredForQuery ==
    /\ trace.path = "multi_query"
    /\ Normalize(trace.query) \in DOMAIN result_cache
    /\ result_cache[Normalize(trace.query)].timestamp = now

IsReranked(result) ==
    result.match_type # <<>>
    /\ result.match_type[Len(result.match_type)] = "reranked"

\* C25: hybrid_search looks the result cache up, retrieves, fuses, reranks
\* the fused list, stores it and returns it: the value stored in the result
\* cache for the query is the list the caller receives, and with a reranker
\* every result of that list went through the reranking.
C25_StoresWhatItReturns ==
    (IsHybridResponse /\ StoredForQuery)
    => /\ result_cache[Normalize(trace.query)].value = response.results
       /\ search_api.reranker
          => \A i \in 1..Len(response.results) : IsReranked(response.results[i])

\* C23: a search operation that fails before its result list is complete
\* (its semantic retrieval raised) leaves the result cache, in-memory map
\* and file, exactly as it was.
C23_FailedSearchLeavesCache ==
    [][(response = NoResponse /\ response' # NoResponse
            /\ trace'.path \in {"failed", "raised"})
       => UNCHANGED <<result_cache, result_cache_file>>]_vars

\* C26: semantic_search and semantic_search_advanced deduplicate by listing
\* id before scoring: the list each makes of the retriever's documents is the
\* list it makes of their distinct ids, so the score of a listing depends on
\* its rank among the distinct ids only.
C26_DedupBeforeScoring ==
    last.op = "format"
    => /\ last.semantic = SemanticList(Unique(last.docs), last.min_score)
       /\ last.advanced = AdvancedList(Unique(last.docs), last.min_score,
                                       AdvancedMaxResults)

\* the lowest rank (from 0) at which a variant's retrieval returned the id
BestRank(id, variants) ==
    CHOOSE r \in 0..MaxDocs :
        /\ \E v \in 1..Len(variants) :
              r + 1 \in 1..Len(variants[v]) /\ variants[v][r + 1] = id
        /\ \A v \in 1..Len(variants) : \A j \in 1..Len(variants[v]) :
              variants[v][j] = id => r <= j - 1

\* C27: each listing id of the merged retrievals is scored with the best
\* (lowest) rank at which any variant returned it.
C27_BestRankScores ==
    last.op = "expand"
    => \A i \in 1..Len(last.semantic) :
          last.semantic[i].score
          = Max(100 - 5 * BestRank(last.semantic[i].id, last.variants),
                last.min_score)

\* C30: every search route of both applications answers an empty or
\* whitespace-only query with status 400 and makes no retrieval call for it.
C30_EmptyQueryRejected ==
    (last.op = "route" /\ Strip(last.query) = <<>>)
    => last.status = 400 /\ last.calls = <<>>

\* the keys whose set() has completed on some object
CompletedKeys == UNION { cache_objects[o].done : o \in CacheObjects }

NoWriteInProgress ==
    \A o \in CacheObjects : cache_objects[o].pc \in {"none", "idle"}

\* C21: no update is lost: once the writes have completed, the persisted
\* file holds the entry of every completed write, and the map of an object
\* holds the entries that object wrote.
C21_NoLostUpdate ==
    (NoWriteInProgress /\ CompletedKeys # {})
    => /\ CompletedKeys \subseteq DOMAIN result_cache_file
       /\ \A o \in CacheObjects :
             cache_objects[o].done \subseteq DOMAIN cache_objects[o].cache

\* C22: the index is never mutated in place: whenever a process loads the
\* index location, during or after an update_index or rebuild_index run, it
\* finds a complete index, never a missing or half-written one.
C22_ReaderFindsCompleteIndex ==
    index.loaded \in {"none", "complete"}

\* C24: hybrid_search never hangs: a request that was started eventually
\* returns a response or an error result, whatever the services do.
C24_HybridSearchReturns ==
    (request.pc # "idle") ~> (request.pc = "returned")

\* a returned result that came from the lexical matching
IsLexical(result) == result.id \in IdSet(trace.text)

LexicalReturned == SelectSeq(response.results, IsLexical)

\* C31: in the list hybrid_search returns, the lexical candidates come in
\* their insertion order, no semantic candidate stands before a lexical
\* one, and when a semantic candidate is returned every lexical candidate
\* is returned too.
C31_LexicalFirstInOrder ==
    IsHybridResponse
    => /\ \A i, j \in 1..Len(response.results) :
             (i < j /\ IsLexical(response.results[j]))
             => IsLexical(response.results[i])
       /\ LexicalReturned
          = SubSeq(FirstOccurrences(trace.text), 1, Len(LexicalReturned))
       /\ (Len(LexicalReturned) < Len(response.results))
          => Len(LexicalReturned) = Len(FirstOccurrences(trace.text))

\* a lexical candidate is returned alone under limit 1 while a semantic
\* candidate of another listing holds the same score 1.0
C31_Witness ==
    /\ IsHybridResponse
    /\ trace.limit = 1
    /\ Len(response.results) = 1
    /\ IsLexical(response.results[1])
    /\ \E i \in 1..Len(trace.semantic) :
          /\ trace.semantic[i].score = 100
          /\ trace.semantic[i].id \notin IdSet(trace.text)

\* the last operation is a get on an instance loaded from the file, for a
\* key that was set before the load and is valid at load and lookup time
GetAfterRestart ==
    /\ last.op = "get"
    /\ trace.op = "load"
    /\ trace.cache = last.cache
    /\ LastWasWritten
    /\ LastWritten.timestamp <= trace.at
    /\ trace.at - LastWritten.timestamp < Duration(last.cache)
    /\ last.at - LastWritten.timestamp < Duration(last.cache)

\* the record of the last set of the key is in the file the instance loaded
ReachedFile ==
    /\ trace.file \notin {NoFile, CorruptFile}
    /\ TrimFold(last.query) \in DOMAIN trace.file
    /\ trace.file[TrimFold(last.query)]
       = [value |-> LastWritten.value, timestamp |-> LastWritten.timestamp]

\* right after the load, the new instance holds no entry expired by then
LoadedOnlyValid ==
    (last.op = "load")
    => \A k \in DOMAIN CacheOf(last.cache) :
          IsValid(CacheOf(last.cache)[k], Duration(last.cache), last.at)

C33_IndependentOfEarlierCalls ==
    last.op = "semantic_search" => last.ret = last.alone

\* C34: after semantic_search has stored an empty list for a query, a
\* second semantic_search for the same query before expiry is a cache hit
\* and calls neither the paraphraser nor the embedding provider nor the
\* ANN index.
C34_EmptyListServedFromCache ==
    ( /\ last.op = "semantic_search"
      /\ trace.entry = "semantic_search"
      /\ trace.path = "multi_query"
      /\ trace.ret = <<>>
      /\ Normalize(last.query) \in DOMAIN last.before
      /\ last.before[Normalize(last.query)].value = <<>>
      /\ last.at - trace.at < ResultDurationHours )
    => /\ last.path = "cache_hit"
       /\ last.calls \cap {"llm", "embedding", "ann"} = {}

\* the second call was answered by _semantic_search_fallback
SecondThroughFallback == last.op = "semantic_search" /\ last.path = "fallback"

\* after a first semantic_search answered by the fallback, the second call
\* attempts the expansion again
ExpansionAttemptedAgain ==
    ( /\ last.op = "semantic_search"
      /\ trace.entry = "semantic_search"
      /\ trace.path = "fallback" )
    => last.path # "cache_hit" /\ "llm" \in last.calls

\* C35: a semantic_search answered through _semantic_search_fallback leaves
\* the result cache, map and file, unchanged, and the next semantic_search
\* for the query attempts the expansion again.
C35_FallbackLeavesCache ==
    /\ SecondThroughFallback
       => result_cache = last.before /\ result_cache_file = last.file_before
    /\ ExpansionAttemptedAgain

\* what does hold: the fallback's list is not stored; the map changes only
\* by the deletion of the query's expired entry in result_cache.get
C35_FallbackNeverStores ==
    /\ SecondThroughFallback
       => /\ result_cache = CacheAfterGet(last.before, ResultDurationHours,
                                          last.query, last.at)
          /\ result_cache_file = last.file_before
    /\ ExpansionAttemptedAgain

\* the counts of the response are those of the response's list and of the
\* lexical and semantic candidates before deduplication and truncation
CountsAreLengths ==
    /\ response.total_results = Len(response.results)
    /\ response.text_results = Len(trace.text)
    /\ response.semantic_results = Len(trace.semantic)

\* C36 as stated: every successful response of hybrid_search has
\* total_results = len(results) and
\* total_results <= min(limit, text_results + semantic_results).
C36_Counts ==
    IsHybridResponse
    => /\ CountsAreLengths
       /\ response.total_results
          <= Min(trace.limit, response.text_results + response.semantic_results)

\* C36, amended: the bound by limit holds for limit >= 0; a negative limit
\* is a slice from the end, and total_results >= 0 > limit.
C36_CountsFromZero ==
    IsHybridResponse
    => /\ CountsAreLengths
       /\ response.total_results
          <= response.text_results + response.semantic_results
       /\ trace.limit >= 0 => response.total_results <= trace.limit

\* a response cut to limit 1 out of a lexical and a semantic candidate
C36_Witness ==
    /\ IsHybridResponse
    /\ trace.limit = 1
    /\ response.total_results = 1
    /\ response.text_results >= 1
    /\ response.semantic_results >= 1

\* C37: after any sequence of update_index, rebuild_index and
\* add_new_announcements, every listing id occurs at most once in the index.
C37_NoListingTwice ==
    \A id \in Ids : index.docs[id] <= 1

\* C38: when update_index or rebuild_index fails, the index that existed
\* before the call and the indexed-ids file are still there.
C38_FailedRunKeepsIndex ==
    (index.result = "failed" /\ index.op \in {"update_index", "rebuild_index"})
    => /\ index.dir = index.before.dir
       /\ index.ids_file = index.before.ids_file

\* C39: /admin/reload-index puts the new instance in the place of the
\* active one only when the new instance holds a vectorstore; when the
\* index directory or the API key is missing or the load failed, the
\* instance active before, with its caches, stays the one the routes use.
C39_ReloadKeepsInstanceOnFailure ==
    last.op = "reload"
    => IF last.dir_exists /\ last.has_key /\ last.new_api.vectorstore
       THEN search_api = last.new_api /\ last.status = 200
       ELSE /\ search_api = last.before
            /\ result_cache = last.result_cache_before
            /\ last.status # 200

\* a reload whose new instance failed to load the index, with the
\* directory and the key present, after a set on the active instance
C39_Witness ==
    /\ last.op = "reload"
    /\ last.dir_exists /\ last.has_key
    /\ ~last.new_api.vectorstore
    /\ search_api = last.before
    /\ search_api # last.new_api
    /\ result_cache # EmptyCache

\* every listing of the store stands exactly once in the collected list
ExactlyOnce(collected, store) ==
    /\ Len(collected) = Len(store)
    /\ \A i \in 1..Len(store) :
          Cardinality({ j \in 1..Len(collected) : collected[j] = store[i] }) = 1

====
